---- MODULE Spec2Model ----
(***************************************************************************)
(* gitree: filtered recursive traversal of a directory tree and its        *)
(* renderers (tree, summary, data tree, zip).  A run is a pure function of *)
(* the filesystem, the order in which directories are listed and the       *)
(* configuration; the state holds these inputs and the output of every     *)
(* renderer that has run.                                                  *)
(*                                                                         *)
(* Names and paths are sequences of one-character strings, so that         *)
(* lower(), startswith(), as_posix() and str(absolute()) are computed.     *)
(***************************************************************************)
EXTENDS Integers, Sequences, FiniteSets, TLC

VARIABLES fs, gitignore, listing, cfg, zipPath, denied, ran, raised, treeOut, summaryOut, dataOut, textOut, zipOut,
          legacyZipOut, svcOut, itemsOut, rootIsFile, roots, rootsOut, argv, userFile, config, got,
          existing, itr, guessed_path, pc

vars == <<fs, gitignore, listing, cfg, zipPath, denied, ran, raised, treeOut, summaryOut, dataOut, textOut, zipOut,
          legacyZipOut, svcOut, itemsOut, rootIsFile, roots, rootsOut, argv, userFile, config, got,
          existing, itr, guessed_path, pc>>

\* the state of a run over several roots; the state of the configuration lookup
rootVars == <<roots, rootsOut>>
configVars == <<argv, userFile, config, got>>
\* the state of a call of get_unused_file_path
pathVars == <<existing, itr, guessed_path, pc>>

----------------------------------------------------------------------------
(* Bounds of the model *)

\* largest number of nodes of a filesystem
MaxNodes == 5
\* max_depth values range over None and 0..MaxDepthArg
MaxDepthArg == 2
\* max_items values range over None and 1..MaxItemsArg
MaxItemsArg == 2

----------------------------------------------------------------------------
(* Characters and strings *)

\* Optional[int] = None
None == -1

\* get_unused_file_path has not been called
NoPathCall == existing = {} /\ itr = 0 /\ guessed_path = None /\ pc = "idle"

CodePoint ==
    ("." :> 46) @@ ("/" :> 47) @@ ("B" :> 66) @@ ("P" :> 80) @@ ("Y" :> 89) @@ ("b" :> 98) @@ ("d" :> 100) @@
    ("e" :> 101) @@ ("g" :> 103) @@ ("i" :> 105) @@ ("n" :> 110) @@ ("o" :> 111) @@
    ("p" :> 112) @@ ("r" :> 114) @@ ("s" :> 115) @@ ("t" :> 116) @@ ("y" :> 121) @@
    ("z" :> 122)

Chars == DOMAIN CodePoint

\* str.lower() on one character: 'A'..'Z' are mapped to 'a'..'z'
LowerChar(c) ==
    IF CodePoint[c] >= 65 /\ CodePoint[c] <= 90
    THEN CHOOSE x \in Chars : CodePoint[x] = CodePoint[c] + 32
    ELSE c

Lower(s) == [i \in 1..Len(s) |-> LowerChar(s[i])]

\* a < b for Python strings: lexicographic on code points, a proper prefix is smaller
RECURSIVE StrLess(_, _)
StrLess(a, b) ==
    IF b = <<>> THEN FALSE
    ELSE IF a = <<>> THEN TRUE
    ELSE IF CodePoint[Head(a)] < CodePoint[Head(b)] THEN TRUE
    ELSE IF CodePoint[Head(a)] > CodePoint[Head(b)] THEN FALSE
    ELSE StrLess(Tail(a), Tail(b))

\* s.startswith(p)
StartsWith(s, p) == Len(p) <= Len(s) /\ SubSeq(s, 1, Len(p)) = p

\* s.endswith(p)
EndsWith(s, p) == Len(p) <= Len(s) /\ SubSeq(s, Len(s) - Len(p) + 1, Len(s)) = p

\* "/".join(parts)
RECURSIVE Join(_)
Join(parts) ==
    IF parts = <<>> THEN <<>>
    ELSE IF Len(parts) = 1 THEN parts[1]
    ELSE parts[1] \o <<"/">> \o Join(Tail(parts))

----------------------------------------------------------------------------
(* The filesystem: nodes are [path, kind], path relative to the root *)

N_bpy == <<"b", ".", "p", "y">>
N_Bpy == <<"B", ".", "p", "y">>
N_st  == <<"s", ".", "t">>
N_s   == <<"s">>
N_d   == <<"d">>
N_z   == <<"z">>
N_dotg == <<".", "g">>
N_gitignore == <<".", "g", "i", "t", "i", "g", "n", "o", "r", "e">>

\* the root directory as an absolute path string, and the name printed for it
RootAbs == <<"/", "r">>
RootName == <<"r">>

File(p) == [path |-> p, kind |-> "file"]
Dir(p)  == [path |-> p, kind |-> "dir"]
\* an entry that is neither a file nor a directory (a dangling symbolic link, a
\* socket, a FIFO): is_file() and is_dir() are both False
Other(p) == [path |-> p, kind |-> "other"]

\* candidate nodes a filesystem is built from
Universe ==
    { File(<<N_bpy>>), File(<<N_Bpy>>), File(<<N_st>>), File(<<N_z>>),
      File(<<N_gitignore>>),
      Dir(<<N_s>>), File(<<N_s, N_bpy>>), File(<<N_s, N_gitignore>>),
      Dir(<<N_s, N_d>>), File(<<N_s, N_d, N_bpy>>),
      Dir(<<N_dotg>>), File(<<N_dotg, N_bpy>>) }

Parent(p) == SubSeq(p, 1, Len(p) - 1)
Name(n) == n.path[Len(n.path)]
IsFile(n) == n.kind = "file"
IsDir(n) == n.kind = "dir"

\* every node but the root's children has its parent directory in the tree
Closed(f) == \A n \in f : Len(n.path) > 1 => Dir(Parent(n.path)) \in f

FileSystems(U) == { f \in SUBSET U : Closed(f) /\ Cardinality(f) <= MaxNodes }

\* entry.relative_to(root).as_posix()
RelPosix(p) == Join(p)

\* str(entry.absolute())
AbsStr(p) == RootAbs \o <<"/">> \o Join(p)

\* position of a name in the order in which the filesystem lists a directory
RECURSIVE IndexOf(_, _)
IndexOf(seq, x) == IF Head(seq) = x THEN 1 ELSE 1 + IndexOf(Tail(seq), x)

AllNames == <<N_bpy, N_Bpy, N_st, N_z, N_gitignore, N_s, N_d, N_dotg>>

Reverse(s) == [i \in 1..Len(s) |-> s[Len(s) + 1 - i]]

ListingOrders == {AllNames, Reverse(AllNames)}

RECURSIVE SetToSeqBy(_, _)
SetToSeqBy(S, order) ==
    IF S = {} THEN <<>>
    ELSE LET first == CHOOSE n \in S :
                 \A m \in S : IndexOf(order, Name(n)) <= IndexOf(order, Name(m))
         IN <<first>> \o SetToSeqBy(S \ {first}, order)

\* iter_dir: list(directory.iterdir()), in the order the filesystem gives
iter_dir(f, order, dirpath) ==
    SetToSeqBy({n \in f : Len(n.path) = Len(dirpath) + 1 /\ Parent(n.path) = dirpath}, order)

----------------------------------------------------------------------------
(* Patterns: pathspec "gitwildmatch" lines.  A pattern is a sequence of     *)
(* segments separated by "/"; a segment is a literal name or "*" followed   *)
(* by a literal text ("*.py").                                              *)

Lit(t)  == [star |-> FALSE, text |-> t]
Star(t) == [star |-> TRUE,  text |-> t]

\* a line of a .gitignore file or a pattern given on the command line
PatLine(neg, lead, segs, dirOnly) ==
    [kind |-> "pattern", neg |-> neg, lead |-> lead, segs |-> segs, dirOnly |-> dirOnly]
CommentLine == [kind |-> "comment", neg |-> FALSE, lead |-> FALSE, segs |-> <<>>, dirOnly |-> FALSE]
BlankLine   == [kind |-> "blank", neg |-> FALSE, lead |-> FALSE, segs |-> <<>>, dirOnly |-> FALSE]

P_star_py == PatLine(FALSE, FALSE, <<Star(<<".", "p", "y">>)>>, FALSE)
P_not_bpy == PatLine(TRUE, FALSE, <<Lit(N_bpy)>>, FALSE)
P_d_slash == PatLine(FALSE, FALSE, <<Lit(N_d)>>, TRUE)
P_lead_d  == PatLine(FALSE, TRUE, <<Lit(N_d)>>, FALSE)
P_st      == PatLine(FALSE, FALSE, <<Lit(N_st)>>, FALSE)

\* one path segment against one pattern segment ("*" never crosses "/")
SegMatch(seg, name) == IF seg.star THEN EndsWith(name, seg.text) ELSE name = seg.text

\* a pattern with a leading or an inner "/" is anchored at the root,
\* any other may match at every level ("**/" is prepended)
Anchored(pat) == pat.lead \/ Len(pat.segs) >= 2

\* the segments of pat match parts[i], parts[i+1], ...; a directory-only pattern
\* ("name/") needs something after them, a trailing slash included
MatchAt(pat, parts, slash, i) ==
    LET n == Len(pat.segs) IN
    /\ i + n - 1 <= Len(parts)
    /\ \A j \in 1..n : SegMatch(pat.segs[j], parts[i + j - 1])
    /\ (pat.dirOnly => (i + n - 1 < Len(parts) \/ slash))

\* GitWildMatchPattern.match_file on the path "/".join(parts) (+ "/" when slash)
PatternMatches(pat, parts, slash) ==
    IF Anchored(pat) THEN MatchAt(pat, parts, slash, 1)
    ELSE \E i \in 1..Len(parts) : MatchAt(pat, parts, slash, i)

\* PathSpec.match_file: the last pattern that matches decides, "!" re-includes
RECURSIVE match_file(_, _, _)
match_file(patterns, parts, slash) ==
    IF patterns = <<>> THEN FALSE
    ELSE LET last == patterns[Len(patterns)] IN
         IF PatternMatches(last, parts, slash) THEN ~last.neg
         ELSE match_file(SubSeq(patterns, 1, Len(patterns) - 1), parts, slash)

----------------------------------------------------------------------------
(* GitIgnoreMatcher *)

\* GitIgnoreMatcher.within_depth
within_depth(gitignore_depth, dirpath) ==
    IF gitignore_depth = None THEN TRUE ELSE Len(dirpath) <= gitignore_depth

\* GitIgnoreMatcher.is_ignored
is_ignored(enabled, n, patterns) ==
    IF ~enabled THEN FALSE
    ELSE IF match_file(patterns, n.path, FALSE) THEN TRUE
    ELSE IF IsDir(n) /\ match_file(patterns, n.path, TRUE) THEN TRUE
    ELSE FALSE

\* one line of <dir>/.gitignore turned into a root-relative pattern:
\* pat = prefix_path + pat.lstrip("/"), "!" kept
PrefixedPattern(dirpath, line) ==
    [kind |-> "pattern", neg |-> line.neg, lead |-> FALSE,
     segs |-> [i \in 1..Len(dirpath) |-> Lit(dirpath[i])] \o line.segs,
     dirOnly |-> line.dirOnly]

RECURSIVE AppendLines(_, _, _)
AppendLines(patterns, dirpath, lines) ==
    IF lines = <<>> THEN patterns
    ELSE IF Head(lines).kind # "pattern" THEN AppendLines(patterns, dirpath, Tail(lines))
    ELSE AppendLines(Append(patterns, PrefixedPattern(dirpath, Head(lines))), dirpath, Tail(lines))

\* the patterns in force in dirpath: the inherited ones, then those of its own .gitignore
ExtendPatterns(f, gi, respect_gitignore, gitignore_depth, dirpath, patterns) ==
    IF /\ respect_gitignore
       /\ within_depth(gitignore_depth, dirpath)
       /\ File(Append(dirpath, N_gitignore)) \in f
    THEN AppendLines(patterns, dirpath, gi[Append(dirpath, N_gitignore)])
    ELSE patterns

----------------------------------------------------------------------------
(* utilities/utils.py *)

\* matches_extra
matches_extra(n, patterns, ignore_depth) ==
    IF patterns = <<>> THEN FALSE
    ELSE IF ignore_depth # None /\ Len(n.path) > ignore_depth THEN FALSE
    ELSE IF match_file(patterns, n.path, FALSE) THEN TRUE
    ELSE IF IsDir(n) /\ match_file(patterns, n.path, TRUE) THEN TRUE
    ELSE FALSE

\* Path.suffix: the name from its last "." on, unless that dot is first or last
RECURSIVE LastDot(_, _)
LastDot(name, i) == IF i = 0 THEN 0 ELSE IF name[i] = "." THEN i ELSE LastDot(name, i - 1)

Suffix(name) ==
    LET i == LastDot(name, Len(name)) IN
    IF i > 1 /\ i < Len(name) THEN SubSeq(name, i, Len(name)) ELSE <<>>

\* matches_file_type comparing the file type as it was given, not lowercased
matches_file_type_CaseSensitive(n, file_types) ==
    IF file_types = <<>> \/ ~IsFile(n) THEN FALSE
    ELSE \E k \in 1..Len(file_types) :
            LET ft == file_types[k]
                normalized_ft == IF StartsWith(ft, <<".">>) THEN ft ELSE <<".">> \o ft
            IN Lower(Suffix(Name(n))) = normalized_ft

\* matches_file_type
matches_file_type(n, file_types) ==
    IF file_types = <<>> \/ ~IsFile(n) THEN FALSE
    ELSE \E k \in 1..Len(file_types) :
            LET ft == Lower(file_types[k])
                normalized_ft == IF StartsWith(ft, <<".">>) THEN ft ELSE <<".">> \o ft
            IN Lower(Suffix(Name(n))) = normalized_ft

----------------------------------------------------------------------------
(* services/list_enteries.py *)

\* "if not show_all and e.name.startswith('.')"
HiddenSkipped(show_all, n) == ~show_all /\ StartsWith(Name(n), <<".">>)

\* the inclusion filters: directories always pass, a file has to match one criterion
IncludePass(n, include_patterns, include_file_types) ==
    IF include_patterns # <<>> \/ include_file_types # <<>>
    THEN IF IsDir(n) THEN TRUE
         ELSE \/ (include_patterns # <<>> /\ match_file(include_patterns, n.path, FALSE))
              \/ (include_file_types # <<>> /\ matches_file_type(n, include_file_types))
    ELSE TRUE

\* the loop body without "if no_files and e.is_file(): continue"
EntryKept_FilesKept(c, n, patterns) ==
    /\ ~HiddenSkipped(c.show_all, n)
    /\ ~is_ignored(c.respect_gitignore, n, patterns)
    /\ ~matches_extra(n, c.extra_excludes, c.exclude_depth)
    /\ IncludePass(n, c.include_patterns, c.include_file_types)

\* the body of the loop "for e in iter_dir(directory)": e is appended to out
EntryKept(c, n, patterns) ==
    /\ ~HiddenSkipped(c.show_all, n)
    /\ ~is_ignored(c.respect_gitignore, n, patterns)
    /\ ~matches_extra(n, c.extra_excludes, c.exclude_depth)
    /\ ~(c.no_files /\ IsFile(n))
    /\ IncludePass(n, c.include_patterns, c.include_file_types)

\* key(a) < key(b) for key = (x.is_file(), x.name.lower())
SortKeyLess(a, b) ==
    \/ (~IsFile(a) /\ IsFile(b))
    \/ (IsFile(a) = IsFile(b) /\ StrLess(Lower(Name(a)), Lower(Name(b))))

\* list.sort is stable: x goes after every element whose key is not greater
RECURSIVE InsertSorted(_, _)
InsertSorted(sorted, x) ==
    IF sorted = <<>> THEN <<x>>
    ELSE IF SortKeyLess(x, Head(sorted)) THEN <<x>> \o sorted
    ELSE <<Head(sorted)>> \o InsertSorted(Tail(sorted), x)

RECURSIVE StableSort(_, _)
StableSort(seq, acc) ==
    IF seq = <<>> THEN acc ELSE StableSort(Tail(seq), InsertSorted(acc, Head(seq)))

\* the max_items limit: (out[:max_items], len(out) - max_items)
Truncate(out, max_items) ==
    IF max_items # None /\ Len(out) > max_items
    THEN [out |-> SubSeq(out, 1, max_items), truncated |-> Len(out) - max_items]
    ELSE [out |-> out, truncated |-> 0]

\* list_entries(directory, ...) -> (out, truncated)
list_entries(f, order, c, max_items, dirpath, patterns) ==
    LET kept(n) == EntryKept(c, n, patterns)
        out == StableSort(SelectSeq(iter_dir(f, order, dirpath), kept), <<>>)
    IN Truncate(out, max_items)

----------------------------------------------------------------------------
(* services/draw_tree.py: draw_tree *)

NoWhitelist == [active |-> FALSE, paths |-> {}]
Whitelist(S) == [active |-> TRUE, paths |-> S]

\* the whitelist filter of draw_tree.rec
WhitelistKeeps(whitelist, n) ==
    IF ~whitelist.active THEN TRUE
    ELSE IF IsFile(n) THEN AbsStr(n.path) \in whitelist.paths
    ELSE IF IsDir(n) THEN \E w \in whitelist.paths : StartsWith(w, AbsStr(n.path))
    ELSE TRUE

\* the depth test one level late: "current_depth > depth"
DepthReached_OneLate(depth, current_depth) == depth # None /\ current_depth > depth

\* "if depth is not None and current_depth >= depth: return"
DepthReached(depth, current_depth) == depth # None /\ current_depth >= depth

RootLine == [kind |-> "root", path |-> <<>>, isDir |-> TRUE, prefix |-> <<>>, last |-> FALSE, count |-> 0]
EntryLine(n, prefix, is_last) ==
    [kind |-> "entry", path |-> n.path, isDir |-> IsDir(n), prefix |-> prefix, last |-> is_last, count |-> 0]
\* the truncation line drawn with the BRANCH connector
TruncLine_Branch(dirpath, prefix, truncated) ==
    [kind |-> "trunc", path |-> dirpath, isDir |-> FALSE, prefix |-> prefix, last |-> FALSE, count |-> truncated]

\* prefix + LAST + "... and {truncated} more items", printed for directory dirpath
TruncLine(dirpath, prefix, truncated) ==
    [kind |-> "trunc", path |-> dirpath, isDir |-> FALSE, prefix |-> prefix, last |-> TRUE, count |-> truncated]

RECURSIVE DrawRec(_, _, _, _, _, _, _, _)
RECURSIVE DrawEntries(_, _, _, _, _, _, _, _, _, _)

\* "for i, entry in enumerate(entries)": the line of entry i, then its subtree
DrawEntries(f, gi, order, c, entries, i, truncated, prefix, current_depth, patterns) ==
    IF i > Len(entries) THEN <<>>
    ELSE LET entry == entries[i]
             is_last == i = Len(entries) /\ truncated = 0
         IN <<EntryLine(entry, prefix, is_last)>>
            \o (IF IsDir(entry)
                THEN DrawRec(f, gi, order, c, entry.path,
                             Append(prefix, IF is_last THEN "SPACE" ELSE "VERT"),
                             current_depth + 1, patterns)
                ELSE <<>>)
            \o DrawEntries(f, gi, order, c, entries, i + 1, truncated, prefix, current_depth, patterns)

\* draw_tree.rec(dirpath, prefix, current_depth, patterns)
DrawRec(f, gi, order, c, dirpath, prefix, current_depth, patterns) ==
    IF DepthReached(c.depth, current_depth) THEN <<>>
    ELSE LET pats == ExtendPatterns(f, gi, c.respect_gitignore, c.gitignore_depth, dirpath, patterns)
             le == list_entries(f, order, c, c.max_items, dirpath, pats)
             keeps(n) == WhitelistKeeps(c.whitelist, n)
             entries == SelectSeq(le.out, keeps)
         IN DrawEntries(f, gi, order, c, entries, 1, le.truncated, prefix, current_depth, pats)
            \o (IF le.truncated > 0 THEN <<TruncLine(dirpath, prefix, le.truncated)>> ELSE <<>>)

\* draw_tree(root, ...): the root's name, then the tree below a directory root
draw_tree(f, gi, order, c) == <<RootLine>> \o DrawRec(f, gi, order, c, <<>>, <<>>, 0, <<>>)

\* print_summary calls list_entries with show_all=False, max_items=None,
\* exclude_depth=None, no_files=False
SummaryCfg(c) == [c EXCEPT !.show_all = FALSE, !.exclude_depth = None, !.no_files = FALSE]

RECURSIVE Count(_, _, _, _, _, _, _)
RECURSIVE CountEntries(_, _, _, _, _, _, _, _)

\* "for entry in entries": the increments of summary[current_depth], in order,
\* each with the entry that caused it
CountEntries(f, gi, order, c, entries, i, current_depth, patterns) ==
    IF i > Len(entries) THEN <<>>
    ELSE LET entry == entries[i]
             rest == CountEntries(f, gi, order, c, entries, i + 1, current_depth, patterns)
         IN IF IsDir(entry)
            THEN <<[level |-> current_depth, isDir |-> TRUE, path |-> entry.path]>>
                 \o Count(f, gi, order, c, entry.path, current_depth + 1, patterns) \o rest
            ELSE <<[level |-> current_depth, isDir |-> FALSE, path |-> entry.path]>> \o rest

\* print_summary.count(dirpath, current_depth, patterns)
Count(f, gi, order, c, dirpath, current_depth, patterns) ==
    LET pats == ExtendPatterns(f, gi, c.respect_gitignore, c.gitignore_depth, dirpath, patterns)
        le == list_entries(f, order, SummaryCfg(c), None, dirpath, pats)
    IN CountEntries(f, gi, order, c, le.out, 1, current_depth, pats)

\* the lines "Level {level}: {dirs} dirs, {files} files", for sorted(summary)
print_summary(f, gi, order, c) ==
    LET incs == Count(f, gi, order, c, <<>>, 0, <<>>)
        levels == {incs[i].level : i \in 1..Len(incs)}
        line(l) == [level |-> l,
                    dirs |-> Cardinality({i \in 1..Len(incs) : incs[i].level = l /\ incs[i].isDir}),
                    files |-> Cardinality({i \in 1..Len(incs) : incs[i].level = l /\ ~incs[i].isDir})]
    IN [k \in 1..Cardinality(levels) |-> line(k - 1)]

----------------------------------------------------------------------------
(* services/output_formatters.py: build_tree_data *)

\* the nodes of the data tree in pre-order; a node's path tells its parent, a
\* truncation marker carries the path of the directory it closes
DataNode(type, path, count) == [type |-> type, path |-> path, count |-> count]

RECURSIVE DataRec(_, _, _, _, _, _, _)
RECURSIVE DataEntries(_, _, _, _, _, _, _, _)

\* "for entry in entries": a file node, or a directory node and its children;
\* an entry that is neither ("if entry.is_file() ... elif entry.is_dir()") adds no node
DataEntries(f, gi, order, c, entries, i, current_depth, patterns) ==
    IF i > Len(entries) THEN <<>>
    ELSE LET entry == entries[i]
             rest == DataEntries(f, gi, order, c, entries, i + 1, current_depth, patterns)
         IN IF IsFile(entry)
            THEN <<DataNode("file", entry.path, 0)>> \o rest
            ELSE IF IsDir(entry)
            THEN <<DataNode("directory", entry.path, 0)>>
                 \o DataRec(f, gi, order, c, entry.path, current_depth + 1, patterns) \o rest
            ELSE rest

\* build_tree_data.rec(dirpath, current_depth, patterns)
DataRec(f, gi, order, c, dirpath, current_depth, patterns) ==
    IF c.depth # None /\ current_depth >= c.depth THEN <<>>
    ELSE LET pats == ExtendPatterns(f, gi, c.respect_gitignore, c.gitignore_depth, dirpath, patterns)
             le == list_entries(f, order, c, c.max_items, dirpath, pats)
             entries == SelectSeq(le.out, LAMBDA e : WhitelistKeeps(c.whitelist, e))
         IN DataEntries(f, gi, order, c, entries, 1, current_depth, pats)
            \o (IF le.truncated > 0 THEN <<DataNode("truncated", dirpath, le.truncated)>> ELSE <<>>)

build_tree_data(f, gi, order, c) ==
    <<DataNode("root", <<>>, 0)>> \o DataRec(f, gi, order, c, <<>>, 0, <<>>)

\* the concatenation of a sequence of sequences
RECURSIVE Flatten(_)
Flatten(blocks) ==
    CHOOSE r \in {IF b = <<>> THEN <<>> ELSE Head(b) \o Flatten(Tail(b)) : b \in {<<>> \o blocks}} : TRUE

\* format_text_tree.rec(node, prefix) for the node with path dirpath: the children
\* are the nodes one level below it and, last, its truncation marker;
\* "is_last = i == len(children) - 1"; a node without children adds no line
RECURSIVE TextRec(_, _, _)
TextRec(data, dirpath, prefix) ==
    LET isChild(d) == IF d.type = "truncated" THEN d.path = dirpath
                      ELSE d.type # "root" /\ Parent(d.path) = dirpath
        children == SelectSeq(data, isChild)
        lines(i) ==
            LET child == children[i]
                is_last == i = Len(children)
            IN IF child.type = "truncated"
               THEN <<[TruncLine(dirpath, prefix, child.count) EXCEPT !.last = is_last]>>
               ELSE <<[kind |-> "entry", path |-> child.path, isDir |-> child.type = "directory",
                       prefix |-> prefix, last |-> is_last, count |-> 0]>>
                    \o TextRec(data, child.path, Append(prefix, IF is_last THEN "SPACE" ELSE "VERT"))
    IN Flatten([i \in 1..Len(children) |-> lines(i)])

\* format_text_tree(tree_data): the name of the root, then the lines below it
format_text_tree(data) == IF data = <<>> THEN <<>> ELSE <<RootLine>> \o TextRec(data, <<>>, <<>>)

----------------------------------------------------------------------------
(* services/tree_service.py: draw_tree *)

\* The same traversal as draw_tree.rec; files_first (like output_buffer, logger
\* and no_limit) is handed to list_entries, which has no such parameter: the
\* sort key (is_file, name.lower()) is the only order list_entries produces,
\* and max_items is applied as given whatever no_limit says.
svc_list_entries(f, order, c, files_first, dirpath, patterns) ==
    list_entries(f, order, c, c.max_items, dirpath, patterns)

RECURSIVE SvcRec(_, _, _, _, _, _, _, _)
RECURSIVE SvcEntries(_, _, _, _, _, _, _, _, _, _)

SvcEntries(f, gi, order, c, entries, i, truncated, prefix, current_depth, patterns) ==
    IF i > Len(entries) THEN <<>>
    ELSE LET entry == entries[i]
             is_last == i = Len(entries) /\ truncated = 0
         IN <<EntryLine(entry, prefix, is_last)>>
            \o (IF IsDir(entry)
                THEN SvcRec(f, gi, order, c, entry.path,
                            Append(prefix, IF is_last THEN "SPACE" ELSE "VERT"),
                            current_depth + 1, patterns)
                ELSE <<>>)
            \o SvcEntries(f, gi, order, c, entries, i + 1, truncated, prefix, current_depth, patterns)

\* tree_service.draw_tree.rec
SvcRec(f, gi, order, c, dirpath, prefix, current_depth, patterns) ==
    IF c.depth # None /\ current_depth >= c.depth THEN <<>>
    ELSE LET pats == ExtendPatterns(f, gi, c.respect_gitignore, c.gitignore_depth, dirpath, patterns)
             le == svc_list_entries(f, order, c, c.files_first, dirpath, pats)
             keeps(n) == WhitelistKeeps(c.whitelist, n)
             entries == SelectSeq(le.out, keeps)
         IN SvcEntries(f, gi, order, c, entries, 1, le.truncated, prefix, current_depth, pats)
            \o (IF le.truncated > 0 THEN <<TruncLine(dirpath, prefix, le.truncated)>> ELSE <<>>)

svc_draw_tree(f, gi, order, c) == <<RootLine>> \o SvcRec(f, gi, order, c, <<>>, <<>>, 0, <<>>)

----------------------------------------------------------------------------
(* services/zipping_service.py: ZippingService *)

\* where the archive is written: outside the tree, or at a path below the root
ZipOutside == [inside |-> FALSE, path |-> <<>>]
ZipInside(p) == [inside |-> TRUE, path |-> p]

\* the loop of zip_project_to_handle.rec without its test for the archive
IsExportZip_NoGuard(zp, n) == FALSE

\* "entry.resolve() == export_zip_resolved"
IsExportZip(zp, n) == zp.inside /\ n.path = zp.path

\* the whitelist filter of zip_project_to_handle.rec
ZipWhitelistKeeps(whitelist, n) ==
    IF ~whitelist.active THEN TRUE
    ELSE IF IsFile(n) THEN AbsStr(n.path) \in whitelist.paths
    ELSE \E w \in whitelist.paths : StartsWith(w, AbsStr(n.path))

\* arcname = entry.relative_to(root).as_posix(), behind arcname_prefix + "/"
Arcname(arcname_prefix, relpath) ==
    IF arcname_prefix # <<>> THEN arcname_prefix \o <<"/">> \o RelPosix(relpath)
    ELSE RelPosix(relpath)

Member(n, arcname) == [src |-> n.path, arcname |-> arcname]

\* a call rec(dirpath, ...): no member is written, the directory is entered
Entered(dirpath) == [src |-> dirpath, arcname |-> <<>>]
IsMember(m) == m.arcname # <<>>

RECURSIVE ZipRec(_, _, _, _, _, _, _, _, _)
RECURSIVE ZipEntries(_, _, _, _, _, _, _, _, _, _)

\* "for entry in entries": skip the archive itself, apply the whitelist,
\* descend into a directory, write a file; the calls of rec and of z.write in
\* the order in which they are made
ZipEntries(f, gi, order, c, zp, arcname_prefix, entries, i, rec_depth, patterns) ==
    IF i > Len(entries) THEN <<>>
    ELSE LET entry == entries[i]
             rest == ZipEntries(f, gi, order, c, zp, arcname_prefix, entries, i + 1, rec_depth, patterns)
         IN IF IsExportZip(zp, entry) THEN rest
            ELSE IF ~ZipWhitelistKeeps(c.whitelist, entry) THEN rest
            ELSE IF IsDir(entry)
                 THEN <<Entered(entry.path)>>
                      \o ZipRec(f, gi, order, c, zp, arcname_prefix, entry.path, rec_depth + 1, patterns) \o rest
                 ELSE <<Member(entry, Arcname(arcname_prefix, entry.path))>> \o rest

\* zip_project_to_handle.rec(dirpath, rec_depth, patterns)
ZipRec(f, gi, order, c, zp, arcname_prefix, dirpath, rec_depth, patterns) ==
    IF c.depth # None /\ rec_depth >= c.depth THEN <<>>
    ELSE LET pats == ExtendPatterns(f, gi, c.respect_gitignore, c.gitignore_depth, dirpath, patterns)
             le == list_entries(f, order, c, None, dirpath, pats)
         IN ZipEntries(f, gi, order, c, zp, arcname_prefix, le.out, 1, rec_depth, pats)

\* "if root.is_dir(): rec(root, 0, [])"
ZipCalls(f, gi, order, c, zp, arcname_prefix) ==
    <<Entered(<<>>)>> \o ZipRec(f, gi, order, c, zp, arcname_prefix, <<>>, 0, <<>>)

\* ZippingService.zip_project_to_handle for a directory root: the members written
zip_project_to_handle(f, gi, order, c, zp, arcname_prefix) ==
    SelectSeq(ZipCalls(f, gi, order, c, zp, arcname_prefix), IsMember)

----------------------------------------------------------------------------
(* src/main.py: the single-file version of the tool *)

\* the text of a pattern as given on the command line
SegText(seg) == (IF seg.star THEN <<"*">> ELSE <<>>) \o seg.text
PatText(line) ==
    (IF line.lead THEN <<"/">> ELSE <<>>)
    \o Join([i \in 1..Len(line.segs) |-> SegText(line.segs[i])])
    \o (IF line.dirOnly THEN <<"/">> ELSE <<>>)

\* fnmatch.fnmatchcase(s, pat) for patterns made of literals and "*"
RECURSIVE fnmatchcase(_, _)
fnmatchcase(s, pat) ==
    IF pat = <<>> THEN s = <<>>
    ELSE IF Head(pat) = "*"
         THEN \E k \in 0..Len(s) : fnmatchcase(SubSeq(s, k + 1, Len(s)), Tail(pat))
         ELSE s # <<>> /\ Head(s) = Head(pat) /\ fnmatchcase(Tail(s), Tail(pat))

\* main.matches_extra
legacy_matches_extra(n, patterns) ==
    \E k \in 1..Len(patterns) :
        \/ fnmatchcase(RelPosix(n.path), PatText(patterns[k]))
        \/ fnmatchcase(Name(n), PatText(patterns[k]))

\* main.list_entries with max_items = None
legacy_list_entries(f, order, c, dirpath, patterns) ==
    LET kept(n) == /\ ~(~c.show_all /\ StartsWith(Name(n), <<".">>))
                   /\ ~is_ignored(c.respect_gitignore, n, patterns)
                   /\ ~legacy_matches_extra(n, c.extra_excludes)
    IN StableSort(SelectSeq(iter_dir(f, order, dirpath), kept), <<>>)

RECURSIVE LegacyZipRec(_, _, _, _, _, _, _)
RECURSIVE LegacyZipEntries(_, _, _, _, _, _, _, _)

\* "for entry in entries": descend into a directory, write a file
LegacyZipEntries(f, gi, order, c, entries, i, depth, patterns) ==
    IF i > Len(entries) THEN <<>>
    ELSE LET entry == entries[i]
             rest == LegacyZipEntries(f, gi, order, c, entries, i + 1, depth, patterns)
         IN IF IsDir(entry)
            THEN <<Entered(entry.path)>>
                 \o LegacyZipRec(f, gi, order, c, entry.path, depth + 1, patterns) \o rest
            ELSE <<Member(entry, RelPosix(entry.path))>> \o rest

\* main.zip_project.rec(dirpath, depth, patterns)
LegacyZipRec(f, gi, order, c, dirpath, depth, patterns) ==
    IF c.depth # None /\ depth >= c.depth THEN <<>>
    ELSE LET pats == ExtendPatterns(f, gi, c.respect_gitignore, c.gitignore_depth, dirpath, patterns)
         IN LegacyZipEntries(f, gi, order, c, legacy_list_entries(f, order, c, dirpath, pats), 1, depth, pats)

LegacyZipCalls(f, gi, order, c) == <<Entered(<<>>)>> \o LegacyZipRec(f, gi, order, c, <<>>, 0, <<>>)

\* main.zip_project for a directory root
legacy_zip_project(f, gi, order, c) == SelectSeq(LegacyZipCalls(f, gi, order, c), IsMember)

----------------------------------------------------------------------------
(* Permission errors *)

\* a permission the filesystem denies: reading a file, listing a directory,
\* listing and searching a directory
Unreadable(p) == [path |-> p, mode |-> "read"]
Unlistable(p) == [path |-> p, mode |-> "list"]

ListingDenied(den) == {d.path : d \in {e \in den : e.mode = "list"}}

\* iter_dir: "except PermissionError: return []": the nodes a traversal can list
Listable(f, den) ==
    {n \in f : \A k \in 0..(Len(n.path) - 1) : SubSeq(n.path, 1, k) \notin ListingDenied(den)}

\* "if gi_path.is_file(): ... gi_path.read_text(...)": read_text raises
\* PermissionError, which nothing catches
ReadRaises(f, den, c, dirpath) ==
    /\ c.respect_gitignore
    /\ within_depth(c.gitignore_depth, dirpath)
    /\ File(Append(dirpath, N_gitignore)) \in f
    /\ Unreadable(Append(dirpath, N_gitignore)) \in den

\* rec(dirpath, ...) returns at the depth limit before it looks for .gitignore
EnterRaises(f, den, c, dirpath) ==
    ~(c.depth # None /\ Len(dirpath) >= c.depth) /\ ReadRaises(f, den, c, dirpath)

\* the steps of a traversal up to the first call of rec that raises; idx holds
\* the positions of the calls that raise
UpToRaise(steps, idx) ==
    IF idx = {} THEN [raised |-> FALSE, out |-> steps]
    ELSE [raised |-> TRUE, out |-> SubSeq(steps, 1, CHOOSE i \in idx : \A j \in idx : i <= j)]

NotRun == [raised |-> FALSE, out |-> <<>>]

\* the lines of a tree after which rec is called on a directory whose .gitignore
\* cannot be read
RaisingLines(f, den, c, lines) ==
    {i \in 1..Len(lines) : /\ lines[i].kind \in {"root", "entry"}
                           /\ lines[i].isDir
                           /\ EnterRaises(f, den, c, lines[i].path)}

\* the same for the calls of a zip writer
RaisingCalls(f, den, c, calls) ==
    {i \in 1..Len(calls) : ~IsMember(calls[i]) /\ EnterRaises(f, den, c, calls[i].src)}

\* draw_tree: the lines printed before the exception, if any (the traversal s
\* is computed once)
DrawRun(f, gi, order, c, den) ==
    CHOOSE r \in {UpToRaise(s, RaisingLines(f, den, c, s))
                  : s \in {draw_tree(Listable(f, den), gi, order, c)}} : TRUE

\* tree_service.draw_tree
SvcRun(f, gi, order, c, den) ==
    CHOOSE r \in {UpToRaise(s, RaisingLines(f, den, c, s))
                  : s \in {svc_draw_tree(Listable(f, den), gi, order, c)}} : TRUE

\* print_summary prints after count has returned: nothing when count raises;
\* count has no depth limit
SummaryRun(f, gi, order, c, den) ==
    IF \E incs \in {Count(Listable(f, den), gi, order, c, <<>>, 0, <<>>)} :
           \/ ReadRaises(f, den, c, <<>>)
           \/ \E i \in 1..Len(incs) : incs[i].isDir /\ ReadRaises(f, den, c, incs[i].path)
    THEN [raised |-> TRUE, out |-> <<>>]
    ELSE [raised |-> FALSE, out |-> print_summary(Listable(f, den), gi, order, c)]

\* build_tree_data returns the tree when rec has returned: nothing when it raises
DataRun(f, gi, order, c, den) ==
    CHOOSE r \in
        {IF \E i \in 1..Len(s) : s[i].type \in {"root", "directory"} /\ EnterRaises(f, den, c, s[i].path)
         THEN [raised |-> TRUE, out |-> <<>>]
         ELSE [raised |-> FALSE, out |-> s]
         : s \in {build_tree_data(Listable(f, den), gi, order, c)}} : TRUE

\* zip_project_to_handle: the members written before the exception, if any
ZipRun(f, gi, order, c, zp, arcname_prefix, den) ==
    CHOOSE x \in
        {[raised |-> r.raised, out |-> SelectSeq(r.out, IsMember)]
         : r \in {UpToRaise(s, RaisingCalls(f, den, c, s))
                  : s \in {ZipCalls(Listable(f, den), gi, order, c, zp, arcname_prefix)}}} : TRUE

\* src/main.py zip_project
LegacyZipRun(f, gi, order, c, den) ==
    CHOOSE x \in
        {[raised |-> r.raised, out |-> SelectSeq(r.out, IsMember)]
         : r \in {UpToRaise(s, RaisingCalls(f, den, c, s))
                  : s \in {LegacyZipCalls(Listable(f, den), gi, order, c)}}} : TRUE

\* A root that is a file: "if root.is_dir()" fails and rec is not called, the
\* tree is the root's name, the data tree the root node, and the zip writers call
\* z.write(root, root.name).  print_summary calls count(root, 0, []) whatever
\* root is: list(root.iterdir()) raises NotADirectoryError, which iter_dir does
\* not catch, and nothing is printed.
FileRootRun(renderer) ==
    CASE renderer = "draw_tree" -> [raised |-> FALSE, out |-> <<RootLine>>]
      [] renderer = "print_summary" -> [raised |-> TRUE, out |-> <<>>]
      [] renderer = "build_tree_data" -> [raised |-> FALSE, out |-> <<DataNode("root", <<>>, 0)>>]
      [] renderer = "zip_project" -> [raised |-> FALSE, out |-> <<[src |-> <<>>, arcname |-> RootName]>>]

----------------------------------------------------------------------------
(* services/items_selection_service.py: ItemsSelectionService *)

\* the attributes _resolve_items_rec reads, for "gitree" run in the root with no
\* path argument; an option that was not given has the value of
\* Config._build_default_config
ConfigOf(c) ==
    [max_depth |-> IF c.depth = None THEN 5 ELSE c.depth,
     max_items |-> IF c.max_items = None THEN 20 ELSE c.max_items,
     max_entries |-> 40,
     gitignore_depth |-> IF c.gitignore_depth = None THEN 5 ELSE c.gitignore_depth,
     hidden_items |-> c.show_all, no_files |-> c.no_files,
     no_max_items |-> c.no_limit, no_max_entries |-> FALSE]

\* key(a) < key(b) for key = (p.is_dir(), p.name.lower())
ItemsKeyLess(a, b) ==
    \/ (~IsDir(a) /\ IsDir(b))
    \/ (IsDir(a) = IsDir(b) /\ StrLess(Lower(Name(a)), Lower(Name(b))))

\* sorted(curr_dir.iterdir(), key=...): stable, x goes after the elements whose
\* key is not greater
RECURSIVE ItemsSort(_, _)
ItemsSort(seq, acc) ==
    IF seq = <<>> THEN acc
    ELSE LET x == Head(seq)
             k == Cardinality({i \in 1..Len(acc) : ~ItemsKeyLess(x, acc[i])})
         IN ItemsSort(Tail(seq), SubSeq(acc, 1, k) \o <<x>> \o SubSeq(acc, k + 1, Len(acc)))

\* GitIgnoreMatcher.excluded of utilities/gitignore_utility.py, a module that is
\* not among the sources: the matcher holds no pattern that names an entry of the
\* tree (see HarmlessGitignores), nothing is excluded
excluded(item_path) == FALSE

\* the condition under which an item is added: the roots are the working
\* directory alone, so explicit_roots, include_paths and exclude_paths are empty
\* and every item is under resolved_paths
ItemAdded(cf, item, curr_depth) ==
    /\ cf.hidden_items \/ ~StartsWith(Name(item), <<".">>)
    /\ ~(curr_depth > cf.gitignore_depth)
    /\ ~excluded(item.path)

\* _resolve_items_rec: the children added below curr_dir in pre-order, and curr_entries
RECURSIVE ItemsRec(_, _, _, _, _, _)
RECURSIVE ItemsLoop(_, _, _, _, _, _, _)
ItemsLoop(f, order, cf, children_to_add, curr_depth, items_added, curr_entries) ==
    IF children_to_add = <<>> THEN [out |-> <<>>, entries |-> curr_entries]
    ELSE LET item == Head(children_to_add)
             rest == Tail(children_to_add)
         IN IF IsFile(item) /\ cf.no_files
            THEN ItemsLoop(f, order, cf, rest, curr_depth, items_added, curr_entries)
            ELSE IF \/ (~cf.no_max_items /\ items_added >= cf.max_items)
                    \/ (~cf.no_max_entries /\ curr_entries >= cf.max_entries)
            THEN [out |-> <<>>, entries |-> curr_entries]
            ELSE IF ~ItemAdded(cf, item, curr_depth)
            THEN ItemsLoop(f, order, cf, rest, curr_depth, items_added, curr_entries)
            ELSE CHOOSE x \in UNION
                     {{[out |-> <<item>> \o sub.out \o r.out, entries |-> r.entries]
                       : r \in {ItemsLoop(f, order, cf, rest, curr_depth, items_added + 1, sub.entries)}}
                      : sub \in {IF IsFile(item) THEN [out |-> <<>>, entries |-> curr_entries + 1]
                                 ELSE ItemsRec(f, order, cf, item.path, curr_depth + 1, curr_entries + 1)}}
                 : TRUE

ItemsRec(f, order, cf, curr_dir, curr_depth, curr_entries) ==
    IF curr_depth > cf.max_depth - 1 THEN [out |-> <<>>, entries |-> curr_entries]
    ELSE ItemsLoop(f, order, cf, ItemsSort(iter_dir(f, order, curr_dir), <<>>), curr_depth, 0, curr_entries)

\* resolve_items: "sorted(curr_dir.iterdir(), ...)" is not inside a try, a
\* PermissionError of iterdir leaves resolve_items and nothing is returned
ItemsRun(f, order, c, den) ==
    CHOOSE x \in
        {LET cf == ConfigOf(c)
             listed == {d \in {<<>>} \cup {out[i].path : i \in {k \in 1..Len(out) : IsDir(out[k])}} :
                           ~(Len(d) > cf.max_depth - 1)}
         IN IF listed \cap ListingDenied(den) # {}
            THEN [raised |-> TRUE, out |-> <<>>]
            ELSE [raised |-> FALSE, out |-> out]
         : out \in {ItemsRec(Listable(f, den), order, ConfigOf(c), <<>>, 0, 1).out}} : TRUE

\* the directories _resolve_items_rec listed, in the order of the calls: the root,
\* then the added directories that are not beyond max_depth
ItemsEntered(out, cf) ==
    <<<<>>>> \o [i \in 1..Len(SelectSeq(out, LAMBDA n : IsDir(n) /\ ~(Len(n.path) > cf.max_depth - 1))) |->
                    SelectSeq(out, LAMBDA n : IsDir(n) /\ ~(Len(n.path) > cf.max_depth - 1))[i].path]

\* "if curr_depth <= config.gitignore_depth and (curr_dir / '.gitignore').is_file():
\* gitignore_matcher.add_gitignore(GitIgnore(...))"
AddsGitignore(f, cf, curr_dir) ==
    Len(curr_dir) <= cf.gitignore_depth /\ File(Append(curr_dir, N_gitignore)) \in f

\* resolve_items creates one GitIgnoreMatcher and every recursive call is handed
\* that object ("gitignore_matcher=gitignore_matcher"): the .gitignore files it
\* has been given when the items of entered[k] are filtered are those of every
\* directory listed so far
MatcherAt(f, cf, entered, k) ==
    SelectSeq(SubSeq(entered, 1, k), LAMBDA d : AddsGitignore(f, cf, d))

----------------------------------------------------------------------------
(* objects/config.py and services/parsing_service.py.  A dict is a function *)
(* from the keys it holds.                                                  *)

\* the keys of the model, and the values Config._build_default_config gives them
DefaultConfig == [max_items |-> 20, max_depth |-> 5, format |-> "txt", no_config |-> FALSE]

\* vars(parse_args()): an option declared with default=argparse.SUPPRESS is an
\* attribute only when it was given (--max-items, --max-depth); --format has
\* default "txt" and --no-config is a store_true without SUPPRESS, default False
parse_args(given) ==
    LET present == [format |-> "txt", no_config |-> FALSE]
    IN [k \in DOMAIN present \cup DOMAIN given |-> IF k \in DOMAIN given THEN given[k] ELSE present[k]]

\* Config.__init__: "if hasattr(args, 'no_config')" empties user_cfg and global_cfg
NewConfig(cli, user_cfg) ==
    [defaults |-> DefaultConfig,
     global_cfg |-> <<>>,
     user_cfg |-> IF "no_config" \in DOMAIN cli THEN <<>> ELSE user_cfg,
     cli |-> cli]

\* Config._get(key)
Get(cf, key) ==
    IF key \in DOMAIN cf.cli THEN cf.cli[key]
    ELSE IF key \in DOMAIN cf.user_cfg THEN cf.user_cfg[key]
    ELSE IF key \in DOMAIN cf.global_cfg THEN cf.global_cfg[key]
    ELSE cf.defaults[key]

\* utilities/utils.py max_items_int: "if n < 1 or n > 10000: raise"
MaxItemsLimit == 10000
max_items_int(v) == [ok |-> ~(v < 1 \/ v > MaxItemsLimit), value |-> v]

\* argparse applies type=max_items_int to --max-items and exits on its error
ArgsRejected(given) == "max_items" \in DOMAIN given /\ ~max_items_int(given.max_items).ok

\* utilities/config.py validate_config, for the key max_items (an integer):
\* TRUE when the file is accepted
validate_config(file) ==
    "max_items" \in DOMAIN file => ~(file.max_items < 1 \/ file.max_items > MaxItemsLimit)

\* gitree/main.py: parse_args(), then "if not args.no_config: config =
\* load_config()" (which validates), then the value of the file is taken "if
\* args.max_items == defaults['max_items'] and 'max_items' in config"
MainMaxItems(given, file) ==
    LET cli == IF "max_items" \in DOMAIN given THEN given.max_items ELSE DefaultConfig.max_items
        no_config == "no_config" \in DOMAIN given
    IN IF ArgsRejected(given) \/ (~no_config /\ ~validate_config(file))
       THEN [rejected |-> TRUE, value |-> cli]
       ELSE [rejected |-> FALSE,
             value |-> IF ~no_config /\ cli = DefaultConfig.max_items /\ "max_items" \in DOMAIN file
                       THEN file.max_items ELSE cli]

\* no Config object yet
NoConfig == [defaults |-> <<>>, global_cfg |-> <<>>, user_cfg |-> <<>>, cli |-> <<>>]

----------------------------------------------------------------------------
(* The state machine *)

\* what a run over several roots has produced: nothing yet
NoRootsOut == [printed |-> <<>>, export |-> <<>>, members |-> <<>>]

BaseCfg ==
    [depth |-> None, show_all |-> FALSE, extra_excludes |-> <<>>, respect_gitignore |-> TRUE,
     gitignore_depth |-> None, max_items |-> None, exclude_depth |-> None, no_files |-> FALSE,
     whitelist |-> NoWhitelist, include_patterns |-> <<>>, include_file_types |-> <<>>,
     files_first |-> FALSE, summary |-> FALSE, data |-> FALSE, no_limit |-> FALSE]

GitignoreFiles(f) == {n.path : n \in {m \in f : IsFile(m) /\ Name(m) = N_gitignore}}

\* every pattern of every .gitignore is a plain name that no entry of the tree has
HarmlessGitignores(f, gi) ==
    \A p \in GitignoreFiles(f) : \A k \in 1..Len(gi[p]) :
        gi[p][k].kind = "pattern" =>
            /\ ~gi[p][k].neg
            /\ \A j \in 1..Len(gi[p][k].segs) :
                  ~gi[p][k].segs[j].star /\ \A n \in f : Name(n) # gi[p][k].segs[j].text

\* the state before any renderer has run: inputs drawn from the given sets; the
\* archive being written exists as a file when its path lies inside the tree
InitRooted(FSs, Texts, Cfgs, InsideZips, Denials, RootKinds, RootSeqs) ==
    /\ rootIsFile \in RootKinds
    /\ fs \in IF rootIsFile THEN {{}} ELSE FSs
    /\ gitignore \in [GitignoreFiles(fs) -> Texts]
    /\ listing \in ListingOrders
    /\ cfg \in Cfgs
    /\ zipPath \in {ZipOutside} \cup {ZipInside(p) : p \in {q \in InsideZips : File(q) \in fs}}
    /\ denied \in Denials
    /\ ran = {}
    /\ raised = {}
    /\ treeOut = <<>>
    /\ summaryOut = <<>>
    /\ dataOut = <<>>
    /\ textOut = <<>>
    /\ zipOut = <<>>
    /\ legacyZipOut = <<>>
    /\ svcOut = <<>>
    /\ itemsOut = <<>>
    /\ roots \in RootSeqs
    /\ rootsOut = NoRootsOut
    /\ argv = <<>>
    /\ userFile = <<>>
    /\ config = NoConfig
    /\ got = <<>>
    /\ NoPathCall

\* one root, a directory
InitDenying(FSs, Texts, Cfgs, InsideZips, Denials) ==
    InitRooted(FSs, Texts, Cfgs, InsideZips, Denials, {FALSE}, {<<>>})

\* every permission granted
InitWith(FSs, Texts, Cfgs, InsideZips) == InitDenying(FSs, Texts, Cfgs, InsideZips, {{}})

\* gitree/main.py: "max_items = None if args.no_limit else args.max_items"
ResolveMaxItems(c) == [c EXCEPT !.max_items = IF c.no_limit THEN None ELSE c.max_items]

\* gitree/main.py, the loops over the roots: the roots are copies of the tree
\* under the names "r1", "r2", ...
RootNameOf(id) == <<"r", CHOOSE d \in {"1", "2", "3", "4"} : d = ToString(id)>>

\* "if not selected_files: continue", in interactive mode
Skipped(r) == r.sel.active /\ r.sel.paths = {}

\* the tree branch: for each root that is not skipped the header (with several
\* roots), the tree and the summary; after the loop the exports are built from
\* the variables root and selected_files as the last iteration left them
TreeRootsRun(f, gi, order, c, rs) ==
    LET cw(i) == [ResolveMaxItems(c) EXCEPT !.whitelist = rs[i].sel]
        tag(i, part, lines) ==
            CHOOSE r \in {[k \in 1..Len(ls) |-> [root |-> rs[i].id, part |-> part, line |-> ls[k]]]
                          : ls \in {lines}} : TRUE
        header(i) ==
            IF Len(rs) > 1
            THEN (IF i > 1 THEN tag(i, "blank", <<RootLine>>) ELSE <<>>) \o tag(i, "header", <<RootLine>>)
            ELSE <<>>
        summary(i) == IF c.summary THEN tag(i, "summary", print_summary(f, gi, order, c)) ELSE <<>>
        block(i) ==
            IF Skipped(rs[i]) THEN <<>>
            ELSE header(i) \o tag(i, "tree", draw_tree(f, gi, order, cw(i))) \o summary(i)
    IN [printed |-> Flatten([i \in 1..Len(rs) |-> block(i)]),
        export |-> IF c.data /\ rs # <<>>
                   THEN <<[root |-> rs[Len(rs)].id, data |-> build_tree_data(f, gi, order, cw(Len(rs)))]>>
                   ELSE <<>>]

\* the zip branch: the members written for each root that is not skipped, under
\* the prefix root.name when there are several roots
ZipRootsRun(f, gi, order, c, zp, rs) ==
    LET prefix(i) == IF Len(rs) > 1 THEN RootNameOf(rs[i].id) ELSE <<>>
        members(i) == zip_project_to_handle(f, gi, order, [c EXCEPT !.whitelist = rs[i].sel], zp, prefix(i))
        block(i) ==
            IF Skipped(rs[i]) THEN <<>>
            ELSE CHOOSE r \in {[k \in 1..Len(ms) |-> [root |-> rs[i].id, member |-> ms[k]]]
                               : ms \in {members(i)}} : TRUE
    IN Flatten([i \in 1..Len(rs) |-> block(i)])

\* gitree/main.py, tree branch: draw_tree(root, ...), then print_summary(root, ...)
\* "if args.summary", then build_tree_data(root, ...) "if args.json or args.txt or args.md"
DrawTree ==
    /\ "draw_tree" \notin ran
    /\ LET c == ResolveMaxItems(cfg)
       IN \E t \in {IF rootIsFile THEN FileRootRun("draw_tree")
                    ELSE DrawRun(fs, gitignore, listing, c, denied)} :
          \E sm \in {IF cfg.summary /\ ~t.raised
                     THEN IF rootIsFile THEN FileRootRun("print_summary")
                          ELSE SummaryRun(fs, gitignore, listing, cfg, denied)
                     ELSE NotRun} :
          \E dt \in {IF cfg.data /\ ~t.raised /\ ~sm.raised
                     THEN IF rootIsFile THEN FileRootRun("build_tree_data")
                          ELSE DataRun(fs, gitignore, listing, c, denied)
                     ELSE NotRun} :
             /\ treeOut' = t.out
             /\ summaryOut' = sm.out
             /\ dataOut' = dt.out
             /\ textOut' = format_text_tree(dt.out)
             /\ raised' = IF t.raised \/ sm.raised \/ dt.raised THEN raised \cup {"draw_tree"} ELSE raised
    /\ ran' = ran \cup {"draw_tree"}
    /\ UNCHANGED <<fs, gitignore, listing, cfg, zipPath, denied, zipOut, legacyZipOut, svcOut, itemsOut, rootIsFile, rootVars, configVars, pathVars>>

\* tree_service.run_tree_mode: draw_tree(root=root, ..., files_first=args.files_first)
ServiceDrawTree ==
    /\ "svc_draw_tree" \notin ran
    /\ \E r \in {IF rootIsFile THEN FileRootRun("draw_tree")
                 ELSE SvcRun(fs, gitignore, listing, cfg, denied)} :
          /\ svcOut' = r.out
          /\ raised' = IF r.raised THEN raised \cup {"svc_draw_tree"} ELSE raised
    /\ ran' = ran \cup {"svc_draw_tree"}
    /\ UNCHANGED <<fs, gitignore, listing, cfg, zipPath, denied, treeOut, summaryOut, dataOut, textOut, zipOut, legacyZipOut, itemsOut, rootIsFile, rootVars, configVars, pathVars>>

\* ZippingService.zip_project: one root, no arcname prefix
ZipProject ==
    /\ "zip_project" \notin ran
    /\ \E r \in {IF rootIsFile THEN FileRootRun("zip_project")
                 ELSE ZipRun(fs, gitignore, listing, cfg, zipPath, <<>>, denied)} :
          /\ zipOut' = r.out
          /\ raised' = IF r.raised THEN raised \cup {"zip_project"} ELSE raised
    /\ ran' = ran \cup {"zip_project"}
    /\ UNCHANGED <<fs, gitignore, listing, cfg, zipPath, denied, treeOut, summaryOut, dataOut, textOut, legacyZipOut, svcOut, itemsOut, rootIsFile, rootVars, configVars, pathVars>>

\* src/main.py: zip_project(root, zip_stem=args.zip, ...)
LegacyZipProject ==
    /\ "legacy_zip_project" \notin ran
    /\ \E r \in {IF rootIsFile THEN FileRootRun("zip_project")
                 ELSE LegacyZipRun(fs, gitignore, listing, cfg, denied)} :
          /\ legacyZipOut' = r.out
          /\ raised' = IF r.raised THEN raised \cup {"legacy_zip_project"} ELSE raised
    /\ ran' = ran \cup {"legacy_zip_project"}
    /\ UNCHANGED <<fs, gitignore, listing, cfg, zipPath, denied, treeOut, summaryOut, dataOut, textOut, zipOut, svcOut, itemsOut, rootIsFile, rootVars, configVars, pathVars>>

Next == DrawTree \/ ServiceDrawTree \/ ZipProject \/ LegacyZipProject

\* ItemsSelectionService.resolve_items, on a tree whose .gitignore files, if any,
\* exclude nothing (the classes GitIgnore and GitIgnoreMatcher it hands them to
\* are not among the sources)
ResolveItems ==
    /\ "resolve_items" \notin ran
    /\ ~rootIsFile
    /\ HarmlessGitignores(fs, gitignore)
    /\ \E r \in {ItemsRun(fs, listing, cfg, denied)} :
          /\ itemsOut' = r.out
          /\ raised' = IF r.raised THEN raised \cup {"resolve_items"} ELSE raised
    /\ ran' = ran \cup {"resolve_items"}
    /\ UNCHANGED <<fs, gitignore, listing, cfg, zipPath, denied, treeOut, summaryOut, dataOut, textOut, zipOut,
                   legacyZipOut, svcOut, rootIsFile, rootVars, configVars, pathVars>>

\* Config(ctx, args), with args the parsed command line and .gitree/config.json
\* read by _build_user_config
ConstructConfig ==
    /\ "config" \notin ran
    /\ IF ArgsRejected(argv)
       THEN config' = config /\ raised' = raised \cup {"config"}
       ELSE config' = NewConfig(parse_args(argv), userFile) /\ raised' = raised
    /\ ran' = ran \cup {"config"}
    /\ UNCHANGED <<fs, gitignore, listing, cfg, zipPath, denied, treeOut, summaryOut, dataOut, textOut,
                   zipOut, legacyZipOut, svcOut, itemsOut, rootIsFile, rootVars, argv, userFile, got, pathVars>>

\* config.<key>: Config.__getattr__ returns _get(key)
GetAttr ==
    /\ "config" \in ran
    /\ "config" \notin raised
    /\ \E key \in DOMAIN DefaultConfig : got' = <<[key |-> key, value |-> Get(config, key)]>>
    /\ UNCHANGED <<fs, gitignore, listing, cfg, zipPath, denied, ran, raised, treeOut, summaryOut, dataOut,
                   textOut, zipOut, legacyZipOut, svcOut, itemsOut, rootIsFile, rootVars, argv, userFile,
                   config, pathVars>>

\* gitree/main.py, from parse_args() to "max_items = None if args.no_limit else
\* args.max_items": the run ends with an error, or max_items is what the
\* traversals are given
MainArgs ==
    /\ "main" \notin ran
    /\ \E r \in {MainMaxItems(argv, userFile)} :
          /\ raised' = IF r.rejected THEN raised \cup {"main"} ELSE raised
          /\ got' = IF r.rejected THEN got ELSE <<[key |-> "max_items", value |-> r.value]>>
    /\ ran' = ran \cup {"main"}
    /\ UNCHANGED <<fs, gitignore, listing, cfg, zipPath, denied, treeOut, summaryOut, dataOut, textOut,
                   zipOut, legacyZipOut, svcOut, itemsOut, rootIsFile, rootVars, argv, userFile, config, pathVars>>

\* gitree/main.py without --zip: "for i, root in enumerate(roots)", then the exports
TreeRoots ==
    /\ "tree_roots" \notin ran
    /\ roots # <<>>
    /\ \E r \in {TreeRootsRun(fs, gitignore, listing, cfg, roots)} :
          rootsOut' = [rootsOut EXCEPT !.printed = r.printed, !.export = r.export]
    /\ ran' = ran \cup {"tree_roots"}
    /\ UNCHANGED <<fs, gitignore, listing, cfg, zipPath, denied, raised, treeOut, summaryOut, dataOut, textOut,
                   zipOut, legacyZipOut, svcOut, itemsOut, rootIsFile, roots, configVars, pathVars>>

\* gitree/main.py with --zip: "for root in roots"
ZipRoots ==
    /\ "zip_roots" \notin ran
    /\ roots # <<>>
    /\ rootsOut' = [rootsOut EXCEPT !.members = ZipRootsRun(fs, gitignore, listing, cfg, zipPath, roots)]
    /\ ran' = ran \cup {"zip_roots"}
    /\ UNCHANGED <<fs, gitignore, listing, cfg, zipPath, denied, raised, treeOut, summaryOut, dataOut, textOut,
                   zipOut, legacyZipOut, svcOut, itemsOut, rootIsFile, roots, configVars, pathVars>>

----------------------------------------------------------------------------
(* Inputs of the specifications *)

FilesOf(f) == {n \in f : IsFile(n)}

\* no whitelist, or the selection of one file of the tree
Whitelists(f) == {NoWhitelist} \cup {Whitelist({AbsStr(n.path)}) : n \in FilesOf(f)}

MaxItemsArgs == {None} \cup (1..MaxItemsArg)
DepthArgs == {None} \cup (0..MaxDepthArg)

\* trees without hidden entries, .gitignore files or archives
PlainUniverse ==
    { File(<<N_bpy>>), File(<<N_Bpy>>), File(<<N_st>>),
      Dir(<<N_s>>), File(<<N_s, N_bpy>>), Dir(<<N_s, N_d>>), File(<<N_s, N_d, N_bpy>>) }

SortCfgs ==
    { [BaseCfg EXCEPT !.max_items = m, !.whitelist = w, !.files_first = ff] :
        m \in MaxItemsArgs, w \in Whitelists(fs), ff \in BOOLEAN }

InitSort == InitWith(FileSystems(PlainUniverse), {<<>>}, SortCfgs, {})

\* ordering and truncation: every plain tree, max_items, whitelist, files_first
SpecSort == InitSort /\ [][Next]_vars

----------------------------------------------------------------------------
(* Reading the outputs *)

\* the lines draw_tree printed for the entries of directory dirpath, in order
EntryLinesOf(out, dirpath) ==
    SelectSeq(out, LAMBDA l : l.kind = "entry" /\ Parent(l.path) = dirpath)

TruncLinesOf(out, dirpath) ==
    SelectSeq(out, LAMBDA l : l.kind = "trunc" /\ l.path = dirpath)

NodeOfLine(l) == [path |-> l.path, kind |-> IF l.isDir THEN "dir" ELSE "file"]

\* the pattern stack in force in dirpath: the .gitignore files from the root down
RECURSIVE PatternsAt(_, _, _, _)
PatternsAt(f, gi, c, dirpath) ==
    ExtendPatterns(f, gi, c.respect_gitignore, c.gitignore_depth, dirpath,
                   IF dirpath = <<>> THEN <<>> ELSE PatternsAt(f, gi, c, Parent(dirpath)))

\* the directories whose listing a traversal printed: the root and every shown
\* directory, unless the depth limit stopped the descent
VisitedDirs(out, c) ==
    {d \in {<<>>} \cup {out[i].path : i \in {k \in 1..Len(out) : out[k].kind = "entry" /\ out[k].isDir}} :
        ~(c.depth # None /\ Len(d) >= c.depth)}

\* the filtered, sorted listing of dirpath, before any truncation
FullListing(f, gi, order, c, dirpath) ==
    list_entries(f, order, c, None, dirpath, PatternsAt(f, gi, c, dirpath)).out

----------------------------------------------------------------------------
(* C1 *)

\* (is_file, name.lower(), name) of a is smaller than that of b
TotalLess(a, b) ==
    \/ SortKeyLess(a, b)
    \/ (~SortKeyLess(b, a) /\ StrLess(Name(a), Name(b)))

\* C1: in every directory the entries come in ascending order of
\* (is_file, name.lower()), ties between equal lowercased names broken by name,
\* whatever the order in which the filesystem listed the directory.
C1_SortedTiesByName ==
    "draw_tree" \in ran =>
        \A d \in VisitedDirs(treeOut, cfg) :
            LET ls == EntryLinesOf(treeOut, d) IN
            \A i, j \in 1..Len(ls) : i < j => TotalLess(NodeOfLine(ls[i]), NodeOfLine(ls[j]))

----------------------------------------------------------------------------
(* C2 *)

\* C2: with max_items = N, a directory whose filtered, sorted listing has
\* M > N entries shows exactly the first N of them and one truncation line
\* counting M - N; with M <= N it shows no truncation line.
C2_FirstNThenTruncation ==
    ("draw_tree" \in ran /\ cfg.max_items # None) =>
        \A d \in VisitedDirs(treeOut, cfg) :
            LET full == FullListing(fs, gitignore, listing, cfg, d)
                shown == [i \in 1..Len(EntryLinesOf(treeOut, d)) |-> NodeOfLine(EntryLinesOf(treeOut, d)[i])]
                trunc == TruncLinesOf(treeOut, d)
            IN IF Len(full) > cfg.max_items
               THEN /\ shown = SubSeq(full, 1, cfg.max_items)
                    /\ Len(trunc) = 1
                    /\ trunc[1].count = Len(full) - cfg.max_items
               ELSE Len(trunc) = 0

----------------------------------------------------------------------------
(* .gitignore handling: trees with a .gitignore in the root and in "s" *)

GitUniverse ==
    { File(<<N_bpy>>), File(<<N_st>>), File(<<N_gitignore>>),
      Dir(<<N_s>>), File(<<N_s, N_bpy>>), File(<<N_s, N_gitignore>>),
      Dir(<<N_s, N_d>>), File(<<N_s, N_d, N_bpy>>) }

\* "# ...", "*.py"  /  "*.py", "!b.py"  /  "", "d/"  /  "/d"
GitignoreTexts ==
    { <<CommentLine, P_star_py>>, <<P_star_py, P_not_bpy>>, <<BlankLine, P_d_slash>>, <<P_lead_d>> }

GitCfgs ==
    { [BaseCfg EXCEPT !.respect_gitignore = rg, !.gitignore_depth = gd, !.include_patterns = inc] :
        rg \in BOOLEAN, gd \in {None, 0, 1}, inc \in {<<>>, <<P_star_py>>} }

InitGit == InitWith(FileSystems(GitUniverse), GitignoreTexts, GitCfgs, {})

SpecGit == InitGit /\ [][Next]_vars

\* the paths of the entries a tree output shows
ShownPaths(out) == {out[i].path : i \in {k \in 1..Len(out) : out[k].kind = "entry"}}

\* filters other than .gitignore and the include patterns let the file n through
\* in a directory the traversal listed in full
OtherFiltersPass(out, c, n) ==
    /\ Parent(n.path) \in VisitedDirs(out, c)
    /\ ~HiddenSkipped(c.show_all, n)
    /\ ~matches_extra(n, c.extra_excludes, c.exclude_depth)
    /\ ~(c.no_files /\ IsFile(n))
    /\ WhitelistKeeps(c.whitelist, n)
    /\ c.max_items = None

----------------------------------------------------------------------------
(* C3 *)

\* C3: when include patterns are configured, every file that matches an include
\* pattern is shown at every depth, also when a .gitignore excludes it.
C3_IncludeOverridesGitignore ==
    ("draw_tree" \in ran /\ cfg.include_patterns # <<>>) =>
        \A n \in FilesOf(fs) :
            (OtherFiltersPass(treeOut, cfg, n) /\ match_file(cfg.include_patterns, n.path, FALSE))
                => n.path \in ShownPaths(treeOut)

----------------------------------------------------------------------------
(* C4 *)

\* the directories above n, from the root down
Ancestors(n) == [i \in 1..Len(n.path) |-> SubSeq(n.path, 1, i - 1)]

\* gitignore rules: the lines of the .gitignore files of the directories above n
\* that lie within gitignore_depth, each matched against n's path relative to
\* the file's own directory; the last line that matches decides
RECURSIVE RuleDecision(_, _, _, _, _, _)
RuleDecision(f, gi, c, n, k, decided) ==
    IF k > Len(n.path) THEN decided
    ELSE LET D == Ancestors(n)[k]
             rel == SubSeq(n.path, Len(D) + 1, Len(n.path))
             lines == IF within_depth(c.gitignore_depth, D) /\ File(Append(D, N_gitignore)) \in f
                      THEN SelectSeq(gi[Append(D, N_gitignore)], LAMBDA l : l.kind = "pattern")
                      ELSE <<>>
             hits == SelectSeq(lines, LAMBDA l : PatternMatches(l, rel, IsDir(n)))
         IN RuleDecision(f, gi, c, n, k + 1,
                         IF hits = <<>> THEN decided ELSE ~hits[Len(hits)].neg)

MatchesGitignore(f, gi, c, n) == RuleDecision(f, gi, c, n, 1, FALSE)

\* the .gitignore files emptied, all of them or those deeper than gitignore_depth
NoGitignoreText(gi) == [p \in DOMAIN gi |-> <<>>]
ShallowGitignoreText(gi, c) ==
    [p \in DOMAIN gi |-> IF within_depth(c.gitignore_depth, Parent(p)) THEN gi[p] ELSE <<>>]

\* C4: with respect_gitignore, every entry matched by a pattern of a .gitignore
\* located within gitignore_depth is absent from the output; without it the
\* output does not depend on any .gitignore content; a .gitignore deeper than
\* gitignore_depth contributes nothing.
C4_GitignoreRespected ==
    "draw_tree" \in ran =>
        /\ cfg.respect_gitignore =>
              \A n \in fs : MatchesGitignore(fs, gitignore, cfg, n) => n.path \notin ShownPaths(treeOut)
        /\ ~cfg.respect_gitignore =>
              treeOut = draw_tree(fs, NoGitignoreText(gitignore), listing, cfg)
        /\ treeOut = draw_tree(fs, ShallowGitignoreText(gitignore, cfg), listing, cfg)

----------------------------------------------------------------------------
(* C5 *)

\* directory d lies above a whitelisted file of the tree
AboveWhitelisted(f, whitelist, d) ==
    \E m \in FilesOf(f) :
        /\ AbsStr(m.path) \in whitelist.paths
        /\ Len(m.path) > Len(d)
        /\ SubSeq(m.path, 1, Len(d)) = d

\* C5: with a whitelist active, every file in the output is a member of the
\* whitelist and every directory in the output is an ancestor of a whitelisted
\* path; the same holds for the members of the archive.
C5_WhitelistOnly ==
    cfg.whitelist.active =>
        /\ "draw_tree" \in ran =>
              \A i \in 1..Len(treeOut) :
                  treeOut[i].kind = "entry" =>
                      IF treeOut[i].isDir
                      THEN AboveWhitelisted(fs, cfg.whitelist, treeOut[i].path)
                      ELSE AbsStr(treeOut[i].path) \in cfg.whitelist.paths
        /\ "zip_project" \in ran =>
              \A i \in 1..Len(zipOut) : AbsStr(zipOut[i].src) \in cfg.whitelist.paths

----------------------------------------------------------------------------
(* Archives: trees in which the archive being written may lie, as file "z" *)

ZipUniverse ==
    { File(<<N_bpy>>), File(<<N_z>>), File(<<N_gitignore>>),
      Dir(<<N_s>>), File(<<N_s, N_bpy>>), Dir(<<N_s, N_d>>), File(<<N_s, N_d, N_bpy>>) }

ZipCfgs ==
    { [BaseCfg EXCEPT !.depth = d, !.max_items = m, !.whitelist = w] :
        d \in {None, 1}, m \in {None, 1}, w \in Whitelists(fs) }

InitZip == InitWith(FileSystems(ZipUniverse), {<<P_d_slash>>}, ZipCfgs, {<<N_z>>})

SpecZip == InitZip /\ [][Next]_vars

\* the member names of an archive; the root-relative paths of the files a tree shows
MemberNames(members) == {members[i].arcname : i \in 1..Len(members)}
ShownFiles(out) ==
    {RelPosix(out[i].path) : i \in {k \in 1..Len(out) : out[k].kind = "entry" /\ ~out[k].isDir}}

BothRendered == {"draw_tree", "zip_project"} \subseteq ran /\ cfg.max_items = None

----------------------------------------------------------------------------
(* C6 *)

----------------------------------------------------------------------------
(* C7 *)

\* C7: the archive being written, when it lies inside the tree, is never a
\* member of itself, in ZippingService and in src/main.py zip_project alike.
C7_ArchiveNeverMember ==
    zipPath.inside =>
        /\ \A i \in 1..Len(zipOut) : zipOut[i].src # zipPath.path
        /\ \A i \in 1..Len(legacyZipOut) : legacyZipOut[i].src # zipPath.path

----------------------------------------------------------------------------
(* Hidden entries: trees with a hidden directory and hidden files *)

HiddenUniverse ==
    { File(<<N_bpy>>), File(<<N_gitignore>>), Dir(<<N_dotg>>), File(<<N_dotg, N_bpy>>),
      Dir(<<N_s>>), File(<<N_s, N_gitignore>>), File(<<N_s, N_bpy>>) }

HiddenCfgs ==
    { [BaseCfg EXCEPT !.show_all = a, !.summary = TRUE, !.data = TRUE, !.depth = d, !.whitelist = w,
                      !.include_patterns = inc] :
        a \in BOOLEAN, d \in {None, 1}, w \in Whitelists(fs), inc \in {<<>>, <<P_star_py>>} }

InitHidden == InitWith(FileSystems(HiddenUniverse), {<<>>}, HiddenCfgs, {})

SpecHidden == InitHidden /\ [][Next]_vars

\* some component of the path starts with "."
HasHiddenPart(path) == \E k \in 1..Len(path) : StartsWith(path[k], <<".">>)

\* the numbers of entries at a level: in a tree output, in the summary
ShownAtLevel(out, level) ==
    Cardinality({k \in 1..Len(out) : out[k].kind = "entry" /\ Len(out[k].path) = level + 1})
CountedAtLevel(summary, level) ==
    IF level + 1 \in DOMAIN summary THEN summary[level + 1].dirs + summary[level + 1].files ELSE 0

----------------------------------------------------------------------------
(* C8 *)

\* show_all = false: no line of a tree, no member of an archive and no count of
\* the summary stands for an entry that is hidden or lies beneath a hidden one
NoHiddenShown ==
    ~cfg.show_all =>
        /\ \A i \in 1..Len(treeOut) : ~HasHiddenPart(treeOut[i].path)
        /\ \A i \in 1..Len(dataOut) : ~HasHiddenPart(dataOut[i].path)
        /\ \A i \in 1..Len(svcOut) : ~HasHiddenPart(svcOut[i].path)
        /\ \A i \in 1..Len(zipOut) : ~HasHiddenPart(zipOut[i].src)
        /\ \A i \in 1..Len(legacyZipOut) : ~HasHiddenPart(legacyZipOut[i].src)
        /\ \A level \in 0..MaxNodes :
              CountedAtLevel(summaryOut, level)
                  <= Cardinality({n \in fs : Len(n.path) = level + 1 /\ ~HasHiddenPart(n.path)})

\* show_all = true: a hidden entry that passes the other filters is in the tree
HiddenShownInTree ==
    (cfg.show_all /\ "draw_tree" \in ran) =>
        \A n \in fs :
            ( /\ StartsWith(Name(n), <<".">>)
              /\ OtherFiltersPass(treeOut, cfg, n)
              /\ ~is_ignored(cfg.respect_gitignore, n, PatternsAt(fs, gitignore, cfg, Parent(n.path)))
              /\ IncludePass(n, cfg.include_patterns, cfg.include_file_types) )
                => n.path \in ShownPaths(treeOut)

\* show_all = true: the summary counts what the tree shows, hidden entries too
\* (no whitelist and no depth limit, which the summary does not take)
HiddenShownInSummary ==
    (cfg.show_all /\ "draw_tree" \in ran /\ cfg.summary /\ ~cfg.whitelist.active
        /\ cfg.depth = None /\ cfg.max_items = None) =>
        \A level \in 0..MaxNodes :
            CountedAtLevel(summaryOut, level) = ShownAtLevel(treeOut, level)

\* C8: with show_all = false no entry whose name starts with "." and nothing
\* beneath a hidden directory appears in the output (tree, data tree, zip, summary); with
\* show_all = true hidden files and directories are shown.
C8_HiddenEntries == NoHiddenShown /\ HiddenShownInTree /\ HiddenShownInSummary

----------------------------------------------------------------------------
(* Depth limit *)

DepthUniverse ==
    { File(<<N_bpy>>), File(<<N_st>>), Dir(<<N_s>>), File(<<N_s, N_bpy>>),
      Dir(<<N_s, N_d>>), File(<<N_s, N_d, N_bpy>>) }

DepthCfgs ==
    { [BaseCfg EXCEPT !.data = TRUE, !.depth = d, !.max_items = m, !.no_files = nf] :
        d \in DepthArgs, m \in {None, 1}, nf \in BOOLEAN }

InitDepth == InitWith(FileSystems(DepthUniverse), {<<>>}, DepthCfgs, {})

SpecDepth == InitDepth /\ [][Next]_vars

Unlimited(c) == [c EXCEPT !.depth = None]

\* a line of a tree that is about depth at most k: an entry at depth <= k, the
\* truncation line of a directory at depth < k
LineWithin(k, l) ==
    CASE l.kind = "root" -> TRUE
      [] l.kind = "entry" -> Len(l.path) <= k
      [] OTHER -> Len(l.path) < k

\* the same for a node of the data tree
DataWithin(k, d) ==
    CASE d.type = "root" -> TRUE
      [] d.type = "truncated" -> Len(d.path) < k
      [] OTHER -> Len(d.path) <= k

----------------------------------------------------------------------------
(* C9 *)

\* C9: with max_depth = k, every renderer emits exactly what it emits without a
\* depth limit for the entries at depth <= k (the children of the root are at
\* depth 1) and nothing deeper; max_depth = 0 leaves the root name alone.
C9_DepthLimit ==
    cfg.depth # None =>
        /\ "draw_tree" \in ran =>
              /\ treeOut = SelectSeq(draw_tree(fs, gitignore, listing, Unlimited(cfg)),
                                     LAMBDA l : LineWithin(cfg.depth, l))
              /\ cfg.depth = 0 => treeOut = <<RootLine>>
              /\ dataOut = SelectSeq(build_tree_data(fs, gitignore, listing, Unlimited(cfg)),
                                     LAMBDA d : DataWithin(cfg.depth, d))
        /\ "svc_draw_tree" \in ran =>
              svcOut = SelectSeq(svc_draw_tree(fs, gitignore, listing, Unlimited(cfg)),
                                 LAMBDA l : LineWithin(cfg.depth, l))
        /\ "zip_project" \in ran =>
              zipOut = SelectSeq(zip_project_to_handle(fs, gitignore, listing, Unlimited(cfg), zipPath, <<>>),
                                 LAMBDA m : Len(m.src) <= cfg.depth)
        /\ "legacy_zip_project" \in ran =>
              legacyZipOut = SelectSeq(legacy_zip_project(fs, gitignore, listing, Unlimited(cfg)),
                                       LAMBDA m : Len(m.src) <= cfg.depth)

\* the tree was drawn with max_depth = 1 over a directory with children: the
\* directory is shown, its children are not
C9_Witness ==
    /\ {"draw_tree", "zip_project"} \subseteq ran
    /\ cfg.depth = 1
    /\ \E i \in 1..Len(treeOut) :
          /\ treeOut[i].kind = "entry" /\ treeOut[i].isDir
          /\ \E n \in fs : Parent(n.path) = treeOut[i].path /\ n.path \notin ShownPaths(treeOut)

----------------------------------------------------------------------------
(* C10 *)

\* C10: with files_first, the tree renderer of tree_service lists every file of
\* a directory before every subdirectory, names ascending case-insensitively
\* within each group.
C10_FilesFirst ==
    ("svc_draw_tree" \in ran /\ cfg.files_first) =>
        \A d \in {<<>>} \cup {n.path : n \in {m \in fs : IsDir(m)}} :
            LET ls == EntryLinesOf(svcOut, d)
            IN \A i, j \in 1..Len(ls) :
                  i < j =>
                      /\ ~(ls[i].isDir /\ ~ls[j].isDir)
                      /\ ls[i].isDir = ls[j].isDir =>
                            ~StrLess(Lower(ls[j].path[Len(ls[j].path)]), Lower(ls[i].path[Len(ls[i].path)]))

----------------------------------------------------------------------------
(* C11 *)

\* the paths of the directories a tree output shows
ShownDirs(out) == {out[i].path : i \in {k \in 1..Len(out) : out[k].kind = "entry" /\ out[k].isDir}}

WithFiles(c) == [c EXCEPT !.no_files = FALSE]

\* C11: with no_files, no file entry appears in the tree, the data tree or the
\* archive at any depth; the directories are listed and descended into as they
\* are without no_files (compared with max_items disabled).
C11_NoFiles ==
    cfg.no_files =>
        /\ "draw_tree" \in ran =>
              /\ \A i \in 1..Len(treeOut) : treeOut[i].kind = "entry" => treeOut[i].isDir
              /\ \A i \in 1..Len(dataOut) : dataOut[i].type # "file"
              /\ cfg.max_items = None =>
                    ShownDirs(treeOut) = ShownDirs(draw_tree(fs, gitignore, listing, WithFiles(cfg)))
        /\ "svc_draw_tree" \in ran =>
              \A i \in 1..Len(svcOut) : svcOut[i].kind = "entry" => svcOut[i].isDir
        /\ "zip_project" \in ran => zipOut = <<>>

\* no_files over a tree with files at two levels: the directory below a
\* directory is shown
C11_Witness ==
    /\ cfg.no_files
    /\ {"draw_tree", "zip_project"} \subseteq ran
    /\ File(<<N_bpy>>) \in fs
    /\ File(<<N_s, N_bpy>>) \in fs
    /\ <<N_s, N_d>> \in ShownDirs(treeOut)

----------------------------------------------------------------------------
(* The no-limit option: max_items given together with no_limit *)

\* every plain tree, a max_items value, with and without --no-limit and --no-files
SpecLimit ==
    /\ InitWith(FileSystems(PlainUniverse), {<<>>},
                { [BaseCfg EXCEPT !.data = TRUE, !.max_items = m, !.no_limit = nl, !.no_files = nf] :
                    m \in 1..MaxItemsArg, nl \in BOOLEAN, nf \in BOOLEAN },
                {})
    /\ [][Next]_vars

\* a tree output has no truncation line and shows every entry that passes the
\* filters in every directory it lists
NothingTruncated(out) ==
    /\ \A i \in 1..Len(out) : out[i].kind # "trunc"
    /\ \A d \in VisitedDirs(out, cfg) :
          LET full == FullListing(fs, gitignore, listing, cfg, d)
          IN \A k \in 1..Len(full) : full[k].path \in ShownPaths(out)

----------------------------------------------------------------------------
(* C12 *)

\* C12: with the no-limit option no directory is truncated, every entry that
\* passes the filters is shown and no truncation line is emitted, in the tree
\* of gitree/main.py and in the tree of tree_service.
C12_NoLimit ==
    cfg.no_limit =>
        /\ "draw_tree" \in ran => NothingTruncated(treeOut)
        /\ "svc_draw_tree" \in ran => NothingTruncated(svcOut)

----------------------------------------------------------------------------
(* C13 *)

\* the other order in which the filesystem may list the children
OtherListing(order) == Reverse(order)

\* C13: the output of a traversal is the same whatever order the directory
\* listing returns the children in: it is a function of the set of children.
C13_ListingOrderIrrelevant ==
    /\ "draw_tree" \in ran =>
          treeOut = draw_tree(fs, gitignore, OtherListing(listing), ResolveMaxItems(cfg))
    /\ "zip_project" \in ran =>
          zipOut = zip_project_to_handle(fs, gitignore, OtherListing(listing), cfg, zipPath, <<>>)

----------------------------------------------------------------------------
(* Unreadable .gitignore files *)

\* at most one .gitignore of the tree cannot be read
SpecUnreadable ==
    /\ InitDenying(FileSystems(GitUniverse), {<<P_star_py>>},
                   { [BaseCfg EXCEPT !.summary = TRUE, !.data = TRUE, !.respect_gitignore = rg,
                                     !.gitignore_depth = gd, !.depth = d] :
                       rg \in BOOLEAN, gd \in {None, 0}, d \in {None, 1} },
                   {},
                   {{}} \cup {{Unreadable(p)} : p \in GitignoreFiles(fs)})
    /\ [][Next]_vars

\* the .gitignore files that cannot be read, taken as files without patterns
UnreadableAsAbsent(gi, den) ==
    [p \in DOMAIN gi |-> IF Unreadable(p) \in den THEN <<>> ELSE gi[p]]

----------------------------------------------------------------------------
(* C14 *)

\* C14: when a .gitignore cannot be read, no traversal fails and each produces
\* what it produces with that file contributing no patterns.
C14_UnreadableGitignore ==
    /\ raised = {}
    /\ "draw_tree" \in ran =>
          treeOut = draw_tree(fs, UnreadableAsAbsent(gitignore, denied), listing, ResolveMaxItems(cfg))
    /\ "zip_project" \in ran =>
          zipOut = zip_project_to_handle(fs, UnreadableAsAbsent(gitignore, denied), listing, cfg,
                                         zipPath, <<>>)

----------------------------------------------------------------------------
(* Directories that cannot be listed *)

\* every permission granted, or one directory (the root included) whose listing
\* raises PermissionError; the renderers and the selection service
SpecUnlistable ==
    /\ InitDenying(FileSystems(DepthUniverse), {<<>>},
                   { [BaseCfg EXCEPT !.depth = d, !.no_files = nf, !.max_items = m] :
                       d \in {None, 1}, nf \in BOOLEAN, m \in {None, 1} },
                   {},
                   {{}} \cup {{Unlistable(d)} : d \in {<<>>} \cup {n.path : n \in {m \in fs : IsDir(m)}}})
    /\ [][Next \/ ResolveItems]_vars

\* C15: a directory whose listing raises a permission error is treated as having
\* no children by every traversal: nothing is raised, and each output is the one
\* produced for the tree in which that directory is empty.
C15_UnlistableAsEmpty ==
    LET f == Listable(fs, denied)
    IN /\ raised = {}
       /\ "draw_tree" \in ran => treeOut = draw_tree(f, gitignore, listing, ResolveMaxItems(cfg))
       /\ "svc_draw_tree" \in ran => svcOut = svc_draw_tree(f, gitignore, listing, cfg)
       /\ "zip_project" \in ran => zipOut = zip_project_to_handle(f, gitignore, listing, cfg, zipPath, <<>>)
       /\ "legacy_zip_project" \in ran => legacyZipOut = legacy_zip_project(f, gitignore, listing, cfg)
       /\ "resolve_items" \in ran => itemsOut = ItemsRec(f, listing, ConfigOf(cfg), <<>>, 0, 1).out

----------------------------------------------------------------------------
(* A root that is a single file *)

\* the root is a file, or a directory holding at most two entries
SpecFileRoot ==
    /\ InitRooted({f \in FileSystems(DepthUniverse) : Cardinality(f) <= 2}, {<<>>},
                  { [BaseCfg EXCEPT !.summary = sm, !.data = dt, !.depth = d, !.respect_gitignore = rg] :
                      sm \in BOOLEAN, dt \in BOOLEAN, d \in {None, 0, 1}, rg \in BOOLEAN },
                  {}, {{}}, BOOLEAN, {<<>>})
    /\ [][Next]_vars

\* C16: for a root that is a file every consumer treats it as one leaf: nothing is
\* raised, the tree is the root's name alone, the data tree is the root node
\* alone, the summary is printed, and the archive holds exactly the file under
\* the root's name.
C16_FileRootIsLeaf ==
    rootIsFile =>
        /\ raised = {}
        /\ "draw_tree" \in ran => /\ treeOut = <<RootLine>>
                                  /\ cfg.data => dataOut = <<DataNode("root", <<>>, 0)>>
        /\ "svc_draw_tree" \in ran => svcOut = <<RootLine>>
        /\ "zip_project" \in ran => zipOut = <<[src |-> <<>>, arcname |-> RootName]>>
        /\ "legacy_zip_project" \in ran => legacyZipOut = <<[src |-> <<>>, arcname |-> RootName]>>

----------------------------------------------------------------------------
(* C17 *)

\* the tree of the same configuration with max_items disabled and no whitelist
UnrestrictedTree ==
    draw_tree(fs, gitignore, listing, [cfg EXCEPT !.max_items = None, !.whitelist = NoWhitelist])

EntriesAtLevel(out, level, isDir) ==
    Cardinality({k \in 1..Len(out) :
                    out[k].kind = "entry" /\ Len(out[k].path) = level + 1 /\ out[k].isDir = isDir})

\* C17: for every level the summary reports the numbers of directories and of
\* files that the tree shows at that level under the same configuration with
\* max_items disabled and no whitelist.
C17_SummaryCountsTree ==
    ("draw_tree" \in ran /\ cfg.summary) =>
        \A level \in 0..MaxNodes :
            /\ (IF level + 1 \in DOMAIN summaryOut THEN summaryOut[level + 1].dirs ELSE 0)
                   = EntriesAtLevel(UnrestrictedTree, level, TRUE)
            /\ (IF level + 1 \in DOMAIN summaryOut THEN summaryOut[level + 1].files ELSE 0)
                   = EntriesAtLevel(UnrestrictedTree, level, FALSE)

----------------------------------------------------------------------------
(* Several roots, interactive selection *)

\* largest number of roots given on the command line
MaxRoots == 2

\* without --interactive selected_files is None for every root; with it each root
\* has the selection of no file or of one file
SpecRoots ==
    /\ InitRooted({f \in FileSystems(DepthUniverse) : Cardinality(f) <= 3}, {<<>>},
               {[BaseCfg EXCEPT !.summary = sm, !.data = dt] : sm \in BOOLEAN, dt \in BOOLEAN},
               {}, {{}}, {FALSE},
               UNION {{[i \in 1..n |-> [id |-> i, sel |-> NoWhitelist]]}
                        \cup {[i \in 1..n |-> [id |-> i, sel |-> ws[i]]] :
                                ws \in [1..n -> (Whitelists(fs) \ {NoWhitelist}) \cup {Whitelist({})}]}
                      : n \in 1..MaxRoots})
    /\ [][TreeRoots \/ ZipRoots]_vars

\* the roots for which something was selected
Selected(rs) == SelectSeq(rs, LAMBDA r : ~Skipped(r))

\* C18: a root for which the selection is empty is skipped entirely: the tree
\* lines, headers, summaries, export data and zip members are those of the run
\* in which that root was not given.
C18_EmptySelectionSkipsRoot ==
    /\ "tree_roots" \in ran =>
          LET r == TreeRootsRun(fs, gitignore, listing, cfg, Selected(roots))
          IN rootsOut.printed = r.printed /\ rootsOut.export = r.export
    /\ "zip_roots" \in ran =>
          rootsOut.members = ZipRootsRun(fs, gitignore, listing, cfg, zipPath, Selected(roots))

----------------------------------------------------------------------------
(* C19 *)

\* the lines of the block of directory p: its shown entries and its truncation line
BlockOf(out, p) ==
    {k \in 1..Len(out) : \/ (out[k].kind = "entry" /\ Parent(out[k].path) = p)
                         \/ (out[k].kind = "trunc" /\ out[k].path = p)}

\* the lines of the subtrees of the entries of directory p
BelowBlock(out, p) ==
    {k \in 1..Len(out) : /\ out[k].kind \in {"entry", "trunc"}
                         /\ Len(out[k].path) >= Len(p) + 1
                         /\ SubSeq(out[k].path, 1, Len(p)) = p
                         /\ k \notin BlockOf(out, p)}

\* the prefix of the lines of the block of p: empty for the root, else the prefix
\* of the line of p followed by the blank or the vertical continuation
BlockPrefix(out, p) ==
    IF p = <<>> THEN <<>>
    ELSE LET e == out[CHOOSE k \in 1..Len(out) : out[k].kind = "entry" /\ out[k].path = p]
         IN Append(e.prefix, IF e.last THEN "SPACE" ELSE "VERT")

ConnectorsRight(out) ==
    \A p \in {<<>>} \cup {out[k].path : k \in {j \in 1..Len(out) : out[j].kind = "entry"}} :
        LET B == BlockOf(out, p)
        IN \A k \in B :
              /\ out[k].last <=> (\A j \in B : j <= k)
              /\ out[k].kind = "trunc" =>
                    (\A j \in B \cup BelowBlock(out, p) : j <= k)
              /\ out[k].prefix = BlockPrefix(out, p)

\* C19: in every rendered tree the 'last' connector is used for exactly one line
\* of each directory's block, its final line: the truncation line when entries
\* were truncated, which comes after every shown entry and its subtree,
\* otherwise the last shown entry; the lines below an entry drawn with 'last'
\* have the blank continuation, those below a 'branch' entry the vertical one.
C19_LastConnector ==
    ConnectorsRight(treeOut) /\ ConnectorsRight(svcOut) /\ ConnectorsRight(textOut)

\* a tree and its text export with a truncation line, a 'last' directory and a
\* 'branch' directory that both have lines below them
C19_Witness ==
    /\ "draw_tree" \in ran
    /\ textOut = treeOut
    /\ \E k \in 1..Len(treeOut) : treeOut[k].kind = "trunc"
    /\ \E k \in 1..Len(treeOut) : treeOut[k].prefix = <<"VERT", "SPACE">>

----------------------------------------------------------------------------
(* Configuration lookup *)

\* the options given on the command line, and the keys set in .gitree/config.json
\* (an absent file is a file without keys)
InitConfigured(Argvs, UserFiles) ==
    /\ rootIsFile = FALSE
    /\ fs = {}
    /\ gitignore = <<>>
    /\ listing = AllNames
    /\ cfg = BaseCfg
    /\ zipPath = ZipOutside
    /\ denied = {}
    /\ ran = {}
    /\ raised = {}
    /\ treeOut = <<>> /\ summaryOut = <<>> /\ dataOut = <<>> /\ textOut = <<>>
    /\ zipOut = <<>> /\ legacyZipOut = <<>> /\ svcOut = <<>> /\ itemsOut = <<>>
    /\ roots = <<>>
    /\ rootsOut = NoRootsOut
    /\ argv \in Argvs
    /\ userFile \in UserFiles
    /\ config = NoConfig
    /\ got = <<>>
    /\ NoPathCall

InitConfig ==
    InitConfigured({[k \in K |-> o[k]] :
                       K \in SUBSET DOMAIN DefaultConfig,
                       o \in {[max_items |-> m, max_depth |-> 1, format |-> "json", no_config |-> TRUE] :
                               m \in 1..MaxItemsArg}},
                   {[k \in K |-> [max_items |-> 3, max_depth |-> 2, format |-> "md"][k]] :
                       K \in SUBSET {"max_items", "max_depth", "format"}})

\* a Config object is constructed once and its attributes are read
SpecConfig == InitConfig /\ [][ConstructConfig \/ GetAttr]_vars

\* the value the precedence CLI > user config > defaults gives a key (the global
\* config is always empty)
Precedence(key) ==
    IF key \in DOMAIN argv THEN argv[key]
    ELSE IF "no_config" \notin DOMAIN argv /\ key \in DOMAIN userFile THEN userFile[key]
    ELSE DefaultConfig[key]

\* C20: an attribute of the configuration resolves to the value given on the
\* command line, else to the value of the user config unless --no-config was
\* used, else to the default.
C20_ConfigPrecedence ==
    \A i \in 1..Len(got) : got[i].value = Precedence(got[i].key)

----------------------------------------------------------------------------
(* C21 *)

\* C21: when include patterns are given, a file that matches none of them but
\* passes the other filters (hidden, .gitignore, excludes, no_files) is still shown.
C21_NonMatchingStillShown ==
    ("draw_tree" \in ran /\ cfg.include_patterns # <<>>) =>
        \A n \in FilesOf(fs) :
            (/\ OtherFiltersPass(treeOut, cfg, n)
             /\ ~is_ignored(cfg.respect_gitignore, n, PatternsAt(fs, gitignore, cfg, Parent(n.path)))
             /\ ~match_file(cfg.include_patterns, n.path, FALSE))
                => n.path \in ShownPaths(treeOut)

----------------------------------------------------------------------------
(* The pattern stack along the recursion: two sibling directories, each with *)
(* its own .gitignore                                                        *)

StackUniverse ==
    { File(<<N_bpy>>), File(<<N_gitignore>>),
      Dir(<<N_d>>), File(<<N_d, N_bpy>>), File(<<N_d, N_gitignore>>),
      Dir(<<N_s>>), File(<<N_s, N_bpy>>), File(<<N_s, N_gitignore>>) }

\* "s.t"  /  "*.py"  /  "*.py", "!b.py"
InitStack ==
    InitWith(FileSystems(StackUniverse), {<<P_st>>, <<P_star_py>>, <<P_star_py, P_not_bpy>>},
             {[BaseCfg EXCEPT !.respect_gitignore = rg, !.gitignore_depth = gd, !.show_all = sa] :
                 rg \in BOOLEAN, gd \in {None, 0}, sa \in BOOLEAN}, {})

SpecStack == InitStack /\ [][Next \/ ResolveItems]_vars

\* the .gitignore files of dirpath and of the directories above it, from the
\* root down, that the selection service hands to its matcher
OwnChain(f, cf, dirpath) ==
    SelectSeq([i \in 1..(Len(dirpath) + 1) |-> SubSeq(dirpath, 1, i - 1)],
              LAMBDA d : AddsGitignore(f, cf, d))

\* C22: the pattern stack has value semantics: the stack used in a directory is
\* its parent's stack followed by the patterns of its own .gitignore, and the
\* patterns collected in one subtree are not there when a directory outside
\* that subtree is filtered.
C22_StackValueSemantics ==
    /\ "draw_tree" \in ran =>
          \A d \in VisitedDirs(treeOut, cfg) :
              [i \in 1..Len(EntryLinesOf(treeOut, d)) |-> NodeOfLine(EntryLinesOf(treeOut, d)[i])]
                  = FullListing(fs, gitignore, listing, cfg, d)
    /\ "resolve_items" \in ran =>
          \A k \in 1..Len(ItemsEntered(itemsOut, ConfigOf(cfg))) :
              MatcherAt(fs, ConfigOf(cfg), ItemsEntered(itemsOut, ConfigOf(cfg)), k)
                  = OwnChain(fs, ConfigOf(cfg), ItemsEntered(itemsOut, ConfigOf(cfg))[k])

----------------------------------------------------------------------------
(* C23 *)

\* C23: a directory always passes the gitignore stage of the entry filter: a
\* directory that matches an accumulated gitignore pattern is still listed (and
\* descended into); only files are removed by gitignore matching.
C23_DirectoriesPassGitignore ==
    "draw_tree" \in ran =>
        \A n \in fs : (IsDir(n) /\ OtherFiltersPass(treeOut, cfg, n)) => n.path \in ShownPaths(treeOut)

----------------------------------------------------------------------------
(* The inclusion filters: include patterns and include file types *)

\* "*.py"  /  "s.t"  /  "s/b.py"
IncludePatternArgs ==
    {<<>>, <<P_star_py>>, <<P_st>>, <<PatLine(FALSE, FALSE, <<Lit(N_s), Lit(N_bpy)>>, FALSE)>>}

\* "PY"  /  ".t"  /  "t", ".Py"
IncludeTypeArgs == {<<>>, <<<<"P", "Y">>>>, <<<<".", "t">>>>, <<<<"t">>, <<".", "P", "y">>>>}

InitInclude ==
    InitWith(FileSystems(PlainUniverse), {<<>>},
             {[BaseCfg EXCEPT !.include_patterns = ip, !.include_file_types = it, !.no_files = nf] :
                 ip \in IncludePatternArgs, it \in IncludeTypeArgs, nf \in BOOLEAN}, {})

SpecInclude == InitInclude /\ [][Next]_vars

\* the extension of the file equals one of the types, case-insensitively and
\* ignoring a leading dot of the type
TypeMatches(n, types) ==
    LET ext == Suffix(Name(n))
        WithoutDot(t) == IF StartsWith(t, <<".">>) THEN Tail(t) ELSE t
    IN ext # <<>> /\ \E k \in 1..Len(types) : Lower(Tail(ext)) = Lower(WithoutDot(types[k]))

----------------------------------------------------------------------------
(* The extra exclude patterns *)

\* "*.py"  /  "d/"  /  "s.t", "s"
InitExclude ==
    InitWith(FileSystems(PlainUniverse), {<<>>},
             {[BaseCfg EXCEPT !.extra_excludes = ex, !.exclude_depth = ed, !.summary = sm] :
                 ex \in {<<>>, <<P_star_py>>, <<P_d_slash>>, <<P_st, PatLine(FALSE, FALSE, <<Lit(N_s)>>, FALSE)>>},
                 ed \in {None} \cup (0..MaxDepthArg), sm \in BOOLEAN}, {})

SpecExclude == InitExclude /\ [][Next]_vars

\* the entry's root-relative path, or for a directory that path + "/", matches
\* some pattern, and the entry is not deeper than exclude_depth
ExtraRemoves(c, n) ==
    /\ \E k \in 1..Len(c.extra_excludes) :
          \/ PatternMatches(c.extra_excludes[k], n.path, FALSE)
          \/ (IsDir(n) /\ PatternMatches(c.extra_excludes[k], n.path, TRUE))
    /\ (c.exclude_depth = None \/ Len(n.path) <= c.exclude_depth)

\* the stage removes neither n nor a directory above it
ExtraKeeps(c, n) ==
    /\ ~ExtraRemoves(c, n)
    /\ \A k \in 1..(Len(n.path) - 1) : ~ExtraRemoves(c, Dir(SubSeq(n.path, 1, k)))

\* C25: the extra-exclude stage removes an entry if and only if its path (for a
\* directory also path + "/") matches an extra_excludes pattern and the entry is
\* not deeper than exclude_depth when that is set: the tree shows, and the
\* summary counts, exactly the entries the stage keeps.
C25_ExtraExcludeStage ==
    "draw_tree" \in ran =>
        /\ ShownPaths(treeOut) = {n.path : n \in {m \in fs : ExtraKeeps(cfg, m)}}
        /\ cfg.summary =>
              \A level \in 0..MaxNodes :
                  CountedAtLevel(summaryOut, level)
                      = Cardinality({n \in fs : ExtraKeeps(cfg, n) /\ Len(n.path) = level + 1})

----------------------------------------------------------------------------
(* The values max_items may take *)

\* values given for max_items on the command line or in the configuration file
MaxItemsInputs == {-1, 0, 1, MaxItemsArg, MaxItemsLimit, MaxItemsLimit + 1}

InitMaxItems ==
    InitConfigured({[k \in K |-> [max_items |-> v, no_config |-> TRUE][k]] :
                       K \in SUBSET {"max_items", "no_config"}, v \in MaxItemsInputs},
                   {<<>>} \cup {[max_items |-> v] : v \in MaxItemsInputs})

\* the command line and the configuration file are read by gitree/main.py, and by
\* the parser and the Config object
SpecMaxItems == InitMaxItems /\ [][MainArgs \/ ConstructConfig \/ GetAttr]_vars

InvalidMaxItems(d) ==
    "max_items" \in DOMAIN d /\ (d.max_items < 1 \/ d.max_items > MaxItemsLimit)

\* C26: a traversal is only ever given a max_items in [1, 10000] (or None): a
\* zero, negative or too large value from the command line or from the
\* configuration file is rejected, the run ends before any traversal.
C26_MaxItemsValid ==
    /\ \A i \in 1..Len(got) : got[i].key = "max_items" => got[i].value \in 1..MaxItemsLimit
    /\ (InvalidMaxItems(argv) \/ ("no_config" \notin DOMAIN argv /\ InvalidMaxItems(userFile))) =>
          /\ "main" \in ran => "main" \in raised
          /\ "config" \in ran => "config" \in raised

----------------------------------------------------------------------------
(* The text export against the printed tree *)

\* plain trees with, besides files and directories, entries that are neither
RenderUniverse ==
    { File(<<N_bpy>>), File(<<N_st>>), Other(<<N_d>>),
      Dir(<<N_s>>), File(<<N_s, N_bpy>>), Other(<<N_s, N_st>>),
      Dir(<<N_s, N_d>>), File(<<N_s, N_d, N_bpy>>) }

RenderCfgs ==
    { [BaseCfg EXCEPT !.data = TRUE, !.depth = d, !.max_items = m, !.whitelist = w] :
        d \in {None, 1}, m \in MaxItemsArgs, w \in Whitelists(fs) }

InitRender == InitWith(FileSystems(RenderUniverse), {<<>>}, RenderCfgs, {})

\* gitree/main.py, tree branch with --txt: draw_tree, then build_tree_data and
\* format_text_tree with the same arguments
SpecRender == InitRender /\ [][DrawTree]_vars

\* C27: the lines of format_text_tree(build_tree_data(...)) are, line by line and
\* in the same order, the lines draw_tree prints with the same configuration:
\* same entries, prefixes, connectors, '/' suffixes and truncation lines
C27_TextTreeEqualsDrawTree ==
    ("draw_tree" \in ran /\ "draw_tree" \notin raised /\ cfg.data) => textOut = treeOut

----------------------------------------------------------------------------
(* ZippingService.zip_roots: member names over several roots *)

\* ZippingService.zip_roots: "for root in roots", prefix = root.name "if
\* len(roots) > 1 and root.is_dir()"; a directory root holds a copy of the tree,
\* a file root is written under its own name
zip_roots(f, gi, order, c, zp, rs) ==
    LET prefix(i) == IF Len(rs) > 1 /\ rs[i].isDir THEN rs[i].name ELSE <<>>
        members(i) ==
            IF rs[i].isDir
            THEN zip_project_to_handle(f, gi, order, [c EXCEPT !.whitelist = rs[i].sel], zp, prefix(i))
            ELSE <<[src |-> <<>>, arcname |-> IF prefix(i) # <<>> THEN prefix(i) \o <<"/">> \o rs[i].name
                                              ELSE rs[i].name]>>
        block(i) ==
            CHOOSE r \in {[k \in 1..Len(ms) |-> [root |-> rs[i].id, member |-> ms[k]]]
                          : ms \in {members(i)}} : TRUE
    IN Flatten([i \in 1..Len(rs) |-> block(i)])

\* ZippingService.zip_roots(args, roots)
ServiceZipRoots ==
    /\ "svc_zip_roots" \notin ran
    /\ roots # <<>>
    /\ rootsOut' = [rootsOut EXCEPT !.members = zip_roots(fs, gitignore, listing, cfg, zipPath, roots)]
    /\ ran' = ran \cup {"svc_zip_roots"}
    /\ UNCHANGED <<fs, gitignore, listing, cfg, zipPath, denied, raised, treeOut, summaryOut, dataOut, textOut,
                   zipOut, legacyZipOut, svcOut, itemsOut, rootIsFile, roots, configVars, pathVars>>

\* the names the roots can bear
RootNames == {RootNameOf(1), RootNameOf(2)}

\* up to MaxRoots roots at distinct paths (root i lies in a directory of its own),
\* each a directory or a single file, under any of the names
NamedRoots ==
    UNION {{[i \in 1..n |-> [id |-> i, sel |-> NoWhitelist, name |-> nm[i], isDir |-> kd[i]]] :
              nm \in [1..n -> RootNames], kd \in [1..n -> BOOLEAN]}
           : n \in 1..MaxRoots}

InitZipRoots ==
    InitRooted({f \in FileSystems(DepthUniverse) : Cardinality(f) <= 3}, {<<>>}, {BaseCfg},
               {}, {{}}, {FALSE}, NamedRoots)

SpecZipRoots == InitZipRoots /\ [][ServiceZipRoots]_vars

\* C28: in the archive zip_roots builds, two members written from distinct source
\* files (another root, or another path below the same root) never bear the
\* same archive member name
C28_DistinctMemberNames ==
    "svc_zip_roots" \in ran =>
        \A i, j \in 1..Len(rootsOut.members) :
            (\/ rootsOut.members[i].root # rootsOut.members[j].root
             \/ rootsOut.members[i].member.src # rootsOut.members[j].member.src) =>
                rootsOut.members[i].member.arcname # rootsOut.members[j].member.arcname

----------------------------------------------------------------------------
(* Truncation under a whitelist *)

\* the entries of dirpath that pass every filter of list_entries and the whitelist
PassingAll(f, gi, order, c, dirpath) ==
    SelectSeq(FullListing(f, gi, order, c, dirpath), LAMBDA e : WhitelistKeeps(c.whitelist, e))

\* the count of the truncation line of dirpath, 0 when there is none
TruncatedOf(out, dirpath) ==
    IF TruncLinesOf(out, dirpath) = <<>> THEN 0 ELSE TruncLinesOf(out, dirpath)[1].count

\* C29: with a whitelist and max_items both active, for every directory draw_tree
\* renders, the entries shown plus the count of its truncation line equal the
\* number of its entries that pass all filters including the whitelist
C29_TruncationCountsWhitelisted ==
    ("draw_tree" \in ran /\ "draw_tree" \notin raised /\ cfg.whitelist.active /\ cfg.max_items # None) =>
        \A d \in VisitedDirs(treeOut, cfg) :
            Len(EntryLinesOf(treeOut, d)) + TruncatedOf(treeOut, d)
                = Len(PassingAll(fs, gitignore, listing, cfg, d))

----------------------------------------------------------------------------
(* utilities/utils.py: get_unused_file_path *)

\* number of names random.randint(100000, 999999) can draw, scaled down
MaxIds == 5
Ids == 1..MaxIds

\* "elif itr >= 100000"
IterLimit == 100000

\* get_unused_file_path(root_path) is entered: "itr = 0"
CallGetUnusedFilePath ==
    /\ pc = "idle"
    /\ pc' = "loop"
    /\ itr' = 0
    /\ UNCHANGED <<fs, gitignore, listing, cfg, zipPath, denied, ran, raised, treeOut, summaryOut, dataOut,
                   textOut, zipOut, legacyZipOut, svcOut, itemsOut, rootIsFile, rootVars, configVars,
                   existing, guessed_path>>

\* one turn of "while True" in which random.randint draws g: return when the
\* path does not exist, raise when itr has reached the limit, else go round
\* again; no statement of the loop assigns itr
Guess(g) ==
    /\ pc = "loop"
    /\ guessed_path' = g
    /\ pc' = IF g \notin existing THEN "returned"
             ELSE IF itr >= IterLimit THEN "raised"
             ELSE "loop"
    /\ UNCHANGED <<fs, gitignore, listing, cfg, zipPath, denied, ran, raised, treeOut, summaryOut, dataOut,
                   textOut, zipOut, legacyZipOut, svcOut, itemsOut, rootIsFile, rootVars, configVars,
                   existing, itr>>

LoopGetUnusedFilePath == \E g \in Ids : Guess(g)

\* any set of the names exists under root_path before the call
InitPath ==
    /\ rootIsFile = FALSE
    /\ fs = {}
    /\ gitignore = <<>>
    /\ listing = CHOOSE o \in ListingOrders : TRUE
    /\ cfg = BaseCfg
    /\ zipPath = ZipOutside
    /\ denied = {}
    /\ ran = {}
    /\ raised = {}
    /\ treeOut = <<>>
    /\ summaryOut = <<>>
    /\ dataOut = <<>>
    /\ textOut = <<>>
    /\ zipOut = <<>>
    /\ legacyZipOut = <<>>
    /\ svcOut = <<>>
    /\ itemsOut = <<>>
    /\ roots = <<>>
    /\ rootsOut = NoRootsOut
    /\ argv = <<>>
    /\ userFile = <<>>
    /\ config = NoConfig
    /\ got = <<>>
    /\ existing \in SUBSET Ids
    /\ itr = 0
    /\ guessed_path = None
    /\ pc = "idle"

NextPath == CallGetUnusedFilePath \/ LoopGetUnusedFilePath

SpecPath == InitPath /\ [][NextPath]_vars

\* the call is made, the loop keeps turning, and random.randint draws every
\* name again and again
FairSpecPath ==
    /\ SpecPath
    /\ WF_vars(CallGetUnusedFilePath)
    /\ WF_vars(LoopGetUnusedFilePath)
    /\ \A g \in Ids : SF_vars(Guess(g))

\* C30: get_unused_file_path always terminates: once in its loop it returns (a
\* path that does not exist) or raises; it never loops forever
C30_AlwaysTerminates == (pc = "loop") ~> (pc \in {"returned", "raised"})
====
